---- MODULE Spec2Model ----
(***************************************************************************)
(* Model of src/fetch_apple_genres.py: the batch runner run_job, the       *)
(* per-track orchestrator process_track with its two primary resolver      *)
(* threads (Odesli, Tapelink), the sequential fallback (Squigly), the      *)
(* module-level cooldown timestamps and the result merge.                  *)
(*                                                                         *)
(* The clock `now` counts half-seconds (REQUEST_DELAY is 0.5 s); every     *)
(* duration of the source is given in seconds and converted by Ticks.      *)
(***************************************************************************)
EXTENDS Integers, Sequences, FiniteSets, TLC

\* ------------------------------------------------------------------ bounds
\* Fetches run_job may issue in one run of the model.
MaxFetches == 1
\* Tracks the work queue hands out in one run of the model.
MaxTracks == 1
\* Seconds a slow request blocks.
SlowRequest == 30
\* run_job alone: the fetch cycles of a run and the tracks the server holds.
MaxCycles == 2
QueueLength == 170

\* --------------------------------------------------------------- constants
\* Seconds to clock ticks (half-seconds).
Ticks(seconds) == seconds * 2

\* time.time() at import (line 25); any positive epoch time.
START_TIME == 1
MAX_RUNTIME_SECONDS == 50 * 60
\* time.sleep(REQUEST_DELAY), 0.5 s, in ticks.
REQUEST_DELAY == 1
BATCH_SIZE == 100
\* `time.time() + 120` in the rate-limit handlers.
COOLDOWN_SECONDS == 120
\* max_retries = 3
MAX_RETRIES == 3
\* wait_time = min(30 * retry_count, 120)
BACKOFF_STEP == 30
BACKOFF_CAP == 120
\* time.sleep(60) after a failed fetch, time.sleep(5 * 60) when no track is due.
FETCH_FAIL_SLEEP == 60
NO_TRACKS_SLEEP == 5 * 60
\* Besides the sleeps, time passes in the first request of the fallback, which
\* returns at once or after SlowRequest seconds; every other request is
\* answered at once.
NetDelays == {0, Ticks(SlowRequest)}

Odesli == "Odesli"
Tapelink == "Tapelink"
Squigly == "Squigly"
Primaries == {Odesli, Tapelink}
Providers == {Odesli, Tapelink, Squigly}

Min(a, b) == IF a <= b THEN a ELSE b

\* ------------------------------------------------------------------ strings
\* JSON values a page can carry under datePublished, after normalisation:
\* absent/null, a string, or a (non-empty) JSON object.
NoDate == [kind |-> "null", s |-> <<>>]
StrDate(s) == [kind |-> "str", s |-> s]
ObjDate == [kind |-> "dict", s |-> << <<"@type", StrDate(<<"D","a","t","e">>)>> >>]

Date2019 == StrDate(<<"2","0","1","9","-","0","1","-","0","1">>)
Date2021 == StrDate(<<"2","0","2","1","-","0","6","-","1","5">>)

\* The text of a sequence of characters.
RECURSIVE Text(_)
Text(chars) == IF chars = <<>> THEN "" ELSE Head(chars) \o Text(Tail(chars))

\* The strings of the model hold the characters U+0001 to U+00FF (but for
\* the grave accent, which a string of the model cannot hold).  The
\* characters U+0080 to U+00FF in code point order:
Latin1High ==
  " ¡¢£¤¥¦§¨©ª«¬­®¯°±²³´µ¶·¸¹º»¼½¾¿ÀÁÂÃÄÅÆÇÈÉÊËÌÍÎÏÐÑÒÓÔÕÖ×ØÙÚÛÜÝÞßàáâãäåæçèéêëìíîïðñòóôõö÷øùúûüýþÿ"
\* The code point of such a character, 0 for a character below U+0080.
HighOrd(c) ==
  IF \E k \in 1..Len(Latin1High) : SubSeq(Latin1High, k, k) = c
  THEN 127 + (CHOOSE k \in 1..Len(Latin1High) : SubSeq(Latin1High, k, k) = c)
  ELSE 0
\* Two hexadecimal digits.
Hex2(n) ==
  SubSeq("0123456789abcdef", (n \div 16) + 1, (n \div 16) + 1)
    \o SubSeq("0123456789abcdef", (n % 16) + 1, (n % 16) + 1)

\* The characters U+0001 to U+005F and U+0061 to U+007F in code point order.
AsciiLow ==
  "\t\n\f\r !\"#$%&'()*+,-./0123456789:;<=>?@ABCDEFGHIJKLMNOPQRSTUVWXYZ[\\]^_"
AsciiHigh ==
  "abcdefghijklmnopqrstuvwxyz{|}~"
\* ord(c).  A string is the sequence of its characters; Python compares
\* strings by code point, character by character.
Ord(c) ==
  CASE c = "-" -> 45
    [] c = "0" -> 48 [] c = "1" -> 49 [] c = "2" -> 50 [] c = "3" -> 51
    [] c = "4" -> 52 [] c = "5" -> 53 [] c = "6" -> 54 [] c = "7" -> 55
    [] c = "8" -> 56 [] c = "9" -> 57
    [] OTHER ->
         IF HighOrd(c) # 0 THEN HighOrd(c)
         ELSE IF \E k \in 1..Len(AsciiLow) : SubSeq(AsciiLow, k, k) = c
         THEN CHOOSE k \in 1..Len(AsciiLow) : SubSeq(AsciiLow, k, k) = c
         ELSE 96 + (CHOOSE k \in 1..Len(AsciiHigh) : SubSeq(AsciiHigh, k, k) = c)

RECURSIVE StrLess(_, _)
StrLess(a, b) ==
  IF b = <<>> THEN FALSE
  ELSE IF a = <<>> THEN TRUE
  ELSE IF Ord(Head(a)) # Ord(Head(b)) THEN Ord(Head(a)) < Ord(Head(b))
  ELSE StrLess(Tail(a), Tail(b))

\* json.dumps of one character of a string (ensure_ascii, the default): the
\* quote and the backslash get a backslash; a control character gets its
\* short escape where JSON has one and \u00XX otherwise, and so do DEL and
\* every character from U+0080 on; every other character stands for itself.
JsonEscape(c) ==
  CASE c = "\"" -> "\\\"" [] c = "\\" -> "\\\\" [] c = "" -> "\\u0001"
    [] c = "" -> "\\u0002" [] c = "" -> "\\u0003" [] c = "" -> "\\u0004"
    [] c = "" -> "\\u0005" [] c = "" -> "\\u0006" [] c = "" -> "\\u0007"
    [] c = "" -> "\\b" [] c = "\t" -> "\\t" [] c = "\n" -> "\\n"
    [] c = "" -> "\\u000b" [] c = "\f" -> "\\f" [] c = "\r" -> "\\r"
    [] c = "" -> "\\u000e" [] c = "" -> "\\u000f" [] c = "" -> "\\u0010"
    [] c = "" -> "\\u0011" [] c = "" -> "\\u0012" [] c = "" -> "\\u0013"
    [] c = "" -> "\\u0014" [] c = "" -> "\\u0015" [] c = "" -> "\\u0016"
    [] c = "" -> "\\u0017" [] c = "" -> "\\u0018" [] c = "" -> "\\u0019"
    [] c = "" -> "\\u001a" [] c = "" -> "\\u001b" [] c = "" -> "\\u001c"
    [] c = "" -> "\\u001d" [] c = "" -> "\\u001e" [] c = "" -> "\\u001f"
    [] c = "" -> "\\u007f"
    [] OTHER -> IF HighOrd(c) # 0 THEN "\\u00" \o Hex2(HighOrd(c)) ELSE c

\* json.dumps of a string, without the quotes around it.
RECURSIVE JsonText(_)
JsonText(chars) ==
  IF chars = <<>> THEN "" ELSE JsonEscape(Head(chars)) \o JsonText(Tail(chars))

\* json.dumps of a list of strings.
RECURSIVE JoinQuoted(_)
JoinQuoted(gs) ==
  IF gs = <<>> THEN ""
  ELSE IF Len(gs) = 1 THEN "\"" \o JsonText(gs[1]) \o "\""
  ELSE "\"" \o JsonText(gs[1]) \o "\", " \o JoinQuoted(Tail(gs))

JsonDumps(gs) == "[" \o JoinQuoted(gs) \o "]"

\* --------------------------------------------------------------------- URLs
\* An Apple Music URL by the parts scrape_apple_metadata rewrites: the geo
\* redirect host, the locale path segment, the track selector `i` and any
\* other query parameter.  NoLink is the empty/None link.
Url(geo, locale, path, i, extra) ==
  [geo |-> geo, locale |-> locale, path |-> path, i |-> i, extra |-> extra]
NoLink == Url(FALSE, "", "", "", FALSE)
LinkA == Url(FALSE, "us", "album/1", "7", FALSE)
LinkAGeo == Url(TRUE, "gb", "album/1", "7", TRUE)
LinkB == Url(FALSE, "us", "album/2", "", FALSE)
LinkC == Url(FALSE, "us", "album/3", "", FALSE)
LinkD == Url(FALSE, "de", "album/4", "", FALSE)
LinkE == Url(FALSE, "us", "album/5", "", TRUE)
LinkF == Url(FALSE, "us", "album/6", "", FALSE)
Links == {LinkA, LinkAGeo, LinkB, LinkC, LinkD, LinkE, LinkF}

\* Links whose first path segment is no locale of two small letters, or that
\* have none (the empty locale).
LinkUpper == Url(FALSE, "US", "album/1", "7", FALSE)
LinkRegion == Url(TRUE, "zh-cn", "album/1", "", TRUE)
LinkLong == Url(FALSE, "usa", "album/1", "7", TRUE)
LinkBare == Url(FALSE, "", "album/1", "7", FALSE)

\* Line 327: re.sub(r'\.com/[a-z]{2}/', '.com/us/', apple_url) rewrites a
\* first path segment of exactly two letters a to z and no other.
CleanLocale(locale) ==
  IF /\ Len(locale) = 2
     /\ \A k \in 1..2 :
          \E n \in 1..26 :
            SubSeq(locale, k, k) = SubSeq("abcdefghijklmnopqrstuvwxyz", n, n)
  THEN "us" ELSE locale

\* Lines 326-335: host, locale and query clean-up before the page fetch.
CleanUrl(link) == Url(FALSE, CleanLocale(link.locale), link.path, link.i, FALSE)

\* What scrape_apple_metadata returns: None, or url/date/genres of the first
\* usable block of the page.
Meta(url, date, genres) == [url |-> url, date |-> date, genres |-> genres]
NoMeta == Meta(NoLink, NoDate, <<>>)

\* ---------------------------------------------------------------- documents
\* A JSON value as json.loads returns it: kind names the Python type and s
\* holds the payload, the characters of a str, the items of a list, the
\* (key, value) pairs of a dict in document order, the one value of a number
\* or a bool, nothing for None.  NoDate, StrDate and ObjDate are such values.
JStr(chars) == [kind |-> "str", s |-> chars]
JNum(n) == [kind |-> "num", s |-> <<n>>]
JList(items) == [kind |-> "list", s |-> items]
JDict(pairs) == [kind |-> "dict", s |-> pairs]
\* The content of a script tag that json.loads rejects.
BadJson == [kind |-> "bad", s |-> <<>>]

\* str.lower() of one character: the 26 letters, and from U+0080 on the
\* capitals U+00C0 to U+00DE (U+00D7 is the multiplication sign), whose small
\* letter stands 32 places on.
Lower(c) ==
  CASE c = "A" -> "a" [] c = "B" -> "b" [] c = "C" -> "c" [] c = "D" -> "d"
    [] c = "E" -> "e" [] c = "F" -> "f" [] c = "G" -> "g" [] c = "H" -> "h"
    [] c = "I" -> "i" [] c = "J" -> "j" [] c = "K" -> "k" [] c = "L" -> "l"
    [] c = "M" -> "m" [] c = "N" -> "n" [] c = "O" -> "o" [] c = "P" -> "p"
    [] c = "Q" -> "q" [] c = "R" -> "r" [] c = "S" -> "s" [] c = "T" -> "t"
    [] c = "U" -> "u" [] c = "V" -> "v" [] c = "W" -> "w" [] c = "X" -> "x"
    [] c = "Y" -> "y" [] c = "Z" -> "z"
    [] OTHER -> IF HighOrd(c) \in (192..222) \ {215}
                THEN SubSeq(Latin1High, HighOrd(c) - 95, HighOrd(c) - 95)
                ELSE c
LowerStr(str) == [k \in 1..Len(str) |-> Lower(str[k])]

\* str.strip(): leading and trailing whitespace removed.  The characters
\* str.isspace() holds for: space, \t, \n, \r, \f, \v (0x0b), the separators
\* 0x1c to 0x1f, the next-line control U+0085 and the no-break space U+00A0.
IsSpace(c) ==
  \/ c \in {" ", "\t", "\n", "\r", "\f", "", "", "", "", ""}
  \/ HighOrd(c) \in {133, 160}
RECURSIVE LStrip(_)
LStrip(str) ==
  IF str # <<>> /\ IsSpace(Head(str)) THEN LStrip(Tail(str)) ELSE str
RECURSIVE RStrip(_)
RStrip(str) ==
  IF str # <<>> /\ IsSpace(str[Len(str)])
  THEN RStrip(SubSeq(str, 1, Len(str) - 1)) ELSE str
Strip(str) == RStrip(LStrip(str))

\* str.split('/'): the segments between the slashes, empty ones included.
RECURSIVE SplitSlash(_, _)
SplitSlash(str, seg) ==
  IF str = <<>> THEN <<seg>>
  ELSE IF Head(str) = "/" THEN <<seg>> \o SplitSlash(Tail(str), <<>>)
  ELSE SplitSlash(Tail(str), Append(seg, Head(str)))
Split(str) == SplitSlash(str, <<>>)

\* Lines 28-31.
GENRES_TO_KEEP_WHOLE ==
  << <<"s","i","n","g","e","r","/","s","o","n","g","w","r","i","t","e","r">>,
     <<"a","d","u","l","t","/","c","o","n","t","e","m","p","o","r","a","r","y">> >>
InList(x, list) == \E k \in 1..Len(list) : list[k] = x

\* container[key]; json.loads keeps the last of equal keys.
GetKey(container, key) ==
  LET last == CHOOSE k \in 1..Len(container.s) :
                /\ container.s[k][1] = key
                /\ \A j \in (k + 1)..Len(container.s) : container.s[j][1] # key
  IN container.s[last][2]

\* The (key, value) pairs of a dict as json.loads builds it: a key stands
\* where it first occurs, with the value of its last occurrence.
DictItems(d) ==
  LET firsts == SelectSeq([k \in 1..Len(d.s) |-> k],
                          LAMBDA k : \A j \in 1..(k - 1) : d.s[j][1] # d.s[k][1])
  IN [n \in 1..Len(firsts) |-> <<d.s[firsts[n]][1], GetKey(d, d.s[firsts[n]][1])>>]

\* Lines 56-68: find_key_recursive.
RECURSIVE find_key_recursive(_, _)
RECURSIVE FindInPairs(_, _)
RECURSIVE FindInItems(_, _)
\* Lines 59-64: the loop over data.items(), the pairs of the dict json.loads
\* built.
FindInPairs(pairs, target_key) ==
  IF pairs = <<>> THEN <<>>
  ELSE LET key == Head(pairs)[1]
           value == Head(pairs)[2]
           found == IF key = target_key
                    THEN (IF value.kind = "list" THEN value.s ELSE <<value>>)
                    ELSE IF value.kind \in {"dict", "list"}
                    THEN find_key_recursive(value, target_key)
                    ELSE <<>>
       IN found \o FindInPairs(Tail(pairs), target_key)
\* Lines 65-67: the loop over the items of a list.
FindInItems(items, target_key) ==
  IF items = <<>> THEN <<>>
  ELSE find_key_recursive(Head(items), target_key)
         \o FindInItems(Tail(items), target_key)
find_key_recursive(data, target_key) ==
  IF data.kind = "dict" THEN FindInPairs(DictItems(data), target_key)
  ELSE IF data.kind = "list" THEN FindInItems(data.s, target_key)
  ELSE <<>>

\* ---------------------------------------------------------------- extractor
\* Python's truth value of a JSON value (lines 362 and 483).
Truthy(d) ==
  \/ d.kind \in {"str", "list", "dict"} /\ d.s # <<>>
  \/ d.kind = "num" /\ d.s[1] # 0
  \/ d.kind = "bool" /\ d.s[1]

\* `key in container` raises TypeError on a number, a bool or None.
InRaises(container) == container.kind \in {"num", "bool", "null"}
\* `key in container` otherwise: a key of a dict, a substring of a str, an
\* item of a list.
HasKey(container, key) ==
  \/ /\ container.kind = "dict"
     /\ \E k \in 1..Len(container.s) : container.s[k][1] = key
  \/ /\ container.kind = "str"
     /\ \E i \in 1..Len(container.s) :
          \E j \in i..Len(container.s) : Text(SubSeq(container.s, i, j)) = key
  \/ /\ container.kind = "list"
     /\ \E k \in 1..Len(container.s) :
          container.s[k].kind = "str" /\ Text(container.s[k].s) = key
\* container[key] with a str key raises TypeError on a str and on a list.
SubscriptRaises(container) == container.kind # "dict"

\* A value computed inside the try of lines 352-393, or the exception raised.
Got(value) == [raised |-> FALSE, date |-> value]
Raised == [raised |-> TRUE, date |-> NoDate]

\* Lines 358 and 359: the date under a nested object, or the next lookup.
NestedDate(data, key, otherwise) ==
  IF ~HasKey(data, key) THEN otherwise
  ELSE IF SubscriptRaises(data) THEN Raised
  ELSE IF InRaises(GetKey(data, key)) THEN Raised
  ELSE IF ~HasKey(GetKey(data, key), "datePublished") THEN otherwise
  ELSE IF SubscriptRaises(GetKey(data, key)) THEN Raised
  ELSE Got(GetKey(GetKey(data, key), "datePublished"))

\* Lines 356-359: date_published of a block.
DateLookup(data) ==
  IF InRaises(data) THEN Raised
  ELSE IF HasKey(data, "datePublished")
  THEN (IF SubscriptRaises(data) THEN Raised
        ELSE Got(GetKey(data, "datePublished")))
  ELSE NestedDate(data, "audio", NestedDate(data, "inAlbum", Got(NoDate)))

\* The characters of a text.
Chars(text) == [k \in 1..Len(text) |-> SubSeq(text, k, k)]

\* len() of a str, a list or a dict.
PyLen(d) == IF d.kind = "dict" THEN Len(DictItems(d)) ELSE Len(d.s)

\* repr() of one character of a str between the quotes `quote`; from U+0080
\* on the characters that are not printable, U+0080 to U+00A0 and the soft
\* hyphen U+00AD, are written \xNN.
ReprChar(c, quote) ==
  CASE c = "\\" -> <<"\\", "\\">>
    [] c = "\t" -> <<"\\", "t">> [] c = "\n" -> <<"\\", "n">>
    [] c = "\r" -> <<"\\", "r">>
    [] c = "'" -> (IF quote = "'" THEN <<"\\", "'">> ELSE <<"'">>)
    [] c = "" -> Chars("\\x01") [] c = "" -> Chars("\\x02")
    [] c = "" -> Chars("\\x03") [] c = "" -> Chars("\\x04")
    [] c = "" -> Chars("\\x05") [] c = "" -> Chars("\\x06")
    [] c = "" -> Chars("\\x07") [] c = "" -> Chars("\\x08")
    [] c = "" -> Chars("\\x0b") [] c = "\f" -> Chars("\\x0c")
    [] c = "" -> Chars("\\x0e") [] c = "" -> Chars("\\x0f")
    [] c = "" -> Chars("\\x10") [] c = "" -> Chars("\\x11")
    [] c = "" -> Chars("\\x12") [] c = "" -> Chars("\\x13")
    [] c = "" -> Chars("\\x14") [] c = "" -> Chars("\\x15")
    [] c = "" -> Chars("\\x16") [] c = "" -> Chars("\\x17")
    [] c = "" -> Chars("\\x18") [] c = "" -> Chars("\\x19")
    [] c = "" -> Chars("\\x1a") [] c = "" -> Chars("\\x1b")
    [] c = "" -> Chars("\\x1c") [] c = "" -> Chars("\\x1d")
    [] c = "" -> Chars("\\x1e") [] c = "" -> Chars("\\x1f")
    [] c = "" -> Chars("\\x7f")
    [] OTHER -> IF HighOrd(c) \in (128..160) \cup {173}
                THEN Chars("\\x" \o Hex2(HighOrd(c)))
                ELSE <<c>>

RECURSIVE ReprChars(_, _)
ReprChars(chars, quote) ==
  IF chars = <<>> THEN <<>>
  ELSE ReprChar(Head(chars), quote) \o ReprChars(Tail(chars), quote)

\* repr() of a str: between double quotes when it holds a single quote and no
\* double quote, between single quotes otherwise.
ReprStr(chars) ==
  LET quote == IF (\E k \in 1..Len(chars) : chars[k] = "'")
                  /\ ~(\E k \in 1..Len(chars) : chars[k] = "\"")
               THEN "\"" ELSE "'"
  IN <<quote>> \o ReprChars(chars, quote) \o <<quote>>

\* repr() of a value json.loads returns; str() of a list or a dict is the same.
RECURSIVE Repr(_)
RECURSIVE ReprItems(_)
RECURSIVE ReprPairs(_)
ReprItems(items) ==
  IF items = <<>> THEN <<>>
  ELSE Repr(Head(items))
         \o (IF Len(items) = 1 THEN <<>> ELSE <<",", " ">> \o ReprItems(Tail(items)))
ReprPairs(pairs) ==
  IF pairs = <<>> THEN <<>>
  ELSE ReprStr(Chars(Head(pairs)[1])) \o <<":", " ">> \o Repr(Head(pairs)[2])
         \o (IF Len(pairs) = 1 THEN <<>> ELSE <<",", " ">> \o ReprPairs(Tail(pairs)))
Repr(d) ==
  CASE d.kind = "str" -> ReprStr(d.s)
    [] d.kind = "num" -> Chars(ToString(d.s[1]))
    [] d.kind = "bool" -> (IF d.s[1] THEN Chars("True") ELSE Chars("False"))
    [] d.kind = "null" -> Chars("None")
    [] d.kind = "list" -> <<"[">> \o ReprItems(d.s) \o <<"]">>
    [] d.kind = "dict" -> <<"{">> \o ReprPairs(DictItems(d)) \o <<"}">>

\* Mutant: partial dates completed to the first day instead of the last.
NormalizeDate_FirstDay(d) ==
  IF ~Truthy(d) THEN Got(d)
  ELSE IF d.kind \in {"num", "bool"} THEN Raised
  ELSE LET text == IF d.kind = "str" THEN d.s ELSE Repr(d)
       IN IF PyLen(d) = 4 THEN Got(StrDate(text \o <<"-","0","1","-","0","1">>))
          ELSE IF PyLen(d) = 7 THEN Got(StrDate(text \o <<"-","0","1">>))
          ELSE Got(d)

\* Lines 362-366: len() raises TypeError on a number or a bool; the f-string
\* takes a str as it is and a list or a dict by its str().
NormalizeDate(d) ==
  IF ~Truthy(d) THEN Got(d)
  ELSE IF d.kind \in {"num", "bool"} THEN Raised
  ELSE LET text == IF d.kind = "str" THEN d.s ELSE Repr(d)
       IN IF PyLen(d) = 4 THEN Got(StrDate(text \o <<"-","1","2","-","3","1">>))
          ELSE IF PyLen(d) = 7 THEN Got(StrDate(text \o <<"-","2","8">>))
          ELSE Got(d)

\* Lines 378-380: the stripped, non-empty parts.
RECURSIVE StrippedParts(_)
StrippedParts(parts) ==
  IF parts = <<>> THEN <<>>
  ELSE (IF Strip(Head(parts)) # <<>> THEN <<Strip(Head(parts))>> ELSE <<>>)
         \o StrippedParts(Tail(parts))

\* Mutant: the keep-whole test without lower().
KeepWhole_CaseSensitive(g) == InList(g, GENRES_TO_KEEP_WHOLE)

\* Line 374: g.lower() in GENRES_TO_KEEP_WHOLE.
KeepWhole(g) == InList(LowerStr(g), GENRES_TO_KEEP_WHOLE)

\* Lines 371-380: processed_genres.
RECURSIVE ProcessGenres(_)
ProcessGenres(raw_genres) ==
  IF raw_genres = <<>> THEN <<>>
  ELSE LET g == Head(raw_genres)
       IN (IF g.kind # "str" THEN <<>>
           ELSE IF KeepWhole(g.s) THEN <<g.s>>
           ELSE StrippedParts(Split(g.s)))
            \o ProcessGenres(Tail(raw_genres))

MusicToken == <<"m","u","s","i","c">>
\* Mutant: the filter without lower().
CleanGenreSet_CaseSensitive(processed_genres) ==
  {processed_genres[k] : k \in {j \in 1..Len(processed_genres) :
                                  processed_genres[j] # MusicToken}}
\* Line 382, the set: set([g for g in processed_genres if g.lower() != "music"]).
CleanGenreSet(processed_genres) ==
  {processed_genres[k] : k \in {j \in 1..Len(processed_genres) :
                                  LowerStr(processed_genres[j]) # MusicToken}}
\* Line 382, list(...): the order of a set's elements is not fixed.
Orderings(S) ==
  {f \in [1..Cardinality(S) -> S] : \A i, j \in 1..Cardinality(S) : f[i] = f[j] => i = j}

\* Lines 352-393: one pass of the loop over the blocks: the block is
\* skipped (an exception, or no genre left), or the records it can yield.
BlockSkipped(match) ==
  \/ match.kind = "bad"
  \/ DateLookup(match).raised
  \/ NormalizeDate(DateLookup(match).date).raised
  \/ CleanGenreSet(ProcessGenres(find_key_recursive(match, "genre"))) = {}
\* Mutant: only the first genre of the list is kept (clean_genres[:1]).
BlockRecords_FirstGenre(apple_url, match) ==
  {Meta(apple_url, NormalizeDate(DateLookup(match).date).date, SubSeq(clean_genres, 1, 1)) :
     clean_genres \in
       Orderings(CleanGenreSet(ProcessGenres(find_key_recursive(match, "genre"))))}
BlockRecords(apple_url, match) ==
  {Meta(apple_url, NormalizeDate(DateLookup(match).date).date, clean_genres) :
     clean_genres \in
       Orderings(CleanGenreSet(ProcessGenres(find_key_recursive(match, "genre"))))}

\* Mutant: an unusable block ends the scan (return instead of continue).
ScanBlocks_StopAtSkipped(apple_url, matches) ==
  IF matches = <<>> \/ BlockSkipped(Head(matches)) THEN {NoMeta}
  ELSE BlockRecords(apple_url, Head(matches))

\* Lines 351-394: the loop over the blocks in document order.
RECURSIVE ScanBlocks(_, _)
ScanBlocks(apple_url, matches) ==
  IF matches = <<>> THEN {NoMeta}
  ELSE IF BlockSkipped(Head(matches)) THEN ScanBlocks(apple_url, Tail(matches))
  ELSE BlockRecords(apple_url, Head(matches))

\* An answer to the page request: status 0 is a transport error, matches are
\* the contents of the page's application/ld+json script tags.
PageResponse(status, matches) == [status |-> status, matches |-> matches]

\* Lines 321-397: what scrape_apple_metadata can return for the link, given
\* the answer to its request of the cleaned URL.
scrape_apple_metadata(apple_url, response) ==
  IF apple_url = NoLink THEN {NoMeta}
  ELSE IF response.status # 200 THEN {NoMeta}
  ELSE ScanBlocks(CleanUrl(apple_url), response.matches)

Pop == <<"P","o","p">>
Rock == <<"R","o","c","k">>
MusicaMexicana == Chars("Música Mexicana")
\* A block with a date and a genre at its top level.
Block(date, genre) == JDict(<< <<"datePublished", date>>, <<"genre", JStr(genre)>> >>)

\* The album page of each URL, as served when the request is answered with
\* it; ScrapeResponses adds the answers that carry no metadata.
PageAt(url) ==
  CASE url.path = "album/1" -> PageResponse(200, <<Block(Date2019, Pop)>>)
    [] url.path = "album/2" -> PageResponse(200, <<Block(Date2021, Rock)>>)
    [] url.path = "album/3" -> PageResponse(200, <<Block(Date2019, Rock)>>)
    [] url.path = "album/4" -> PageResponse(200, <<Block(NoDate, Pop)>>)
    [] url.path = "album/5" -> PageResponse(200, <<JDict(<< <<"genre", JStr(MusicaMexicana)>> >>)>>)
    [] url.path = "album/6" -> PageResponse(200, <<Block(ObjDate, Pop)>>)

\* requests raised instead of answering: a timeout or a connection failure.
TransportError(r) == r.status = 0

\* Answers that carry no metadata: a status other than 200 (lines 340-342),
\* a page without JSON-LD (lines 347-349), a page whose only block has no
\* genre left (lines 384 and 394).
NotFoundPage == PageResponse(404, <<>>)
BarePage == PageResponse(200, <<>>)
GenrelessPage ==
  PageResponse(200, <<JDict(<< <<"genre", JStr(<<"M","u","s","i","c">>)>> >>)>>)

\* Line 338: the request of the cleaned URL fails (status 0: timeout,
\* connection failure), or is answered by the album's page, or by an answer
\* without metadata.
ScrapeResponses(link) ==
  {PageResponse(0, <<>>), PageAt(CleanUrl(link)), NotFoundPage, BarePage, GenrelessPage}
ScrapeResults(link) ==
  UNION {scrape_apple_metadata(link, response) : response \in ScrapeResponses(link)}
\* What scrape_apple_metadata(link) can return, and whether after a transport
\* error of its request.
ScrapeOutcomesTable ==
  [link \in Links |->
     UNION {{[meta |-> m, error |-> TransportError(response)] :
               m \in scrape_apple_metadata(link, response)} :
            response \in ScrapeResponses(link)}]
ScrapeOutcomes(link) == ScrapeOutcomesTable[link]

\* Line 489: json.dumps of the genres of every metadata a page can give.
GenreLists ==
  {o.meta.genres : o \in {x \in UNION {ScrapeOutcomes(l) : l \in Links} : x.meta # NoMeta}}
GenresJsonTable == [gs \in GenreLists |-> JsonDumps(gs)]
GenresJson(gs) == GenresJsonTable[gs]

\* ---------------------------------------------------------------- resolvers
\* What one HTTP step of a resolver leads to: a link returned, None returned,
\* RateLimitException or SoftRateLimitException raised, or the next step.
Out(kind, url) == [kind |-> kind, url |-> url]
RetNone == Out("none", NoLink)
RaiseHard == Out("hard", NoLink)
RaiseSoft == Out("soft", NoLink)
NextStep == Out("next", NoLink)
RetLink(url) == IF url = NoLink THEN RetNone ELSE Out("link", url)

\* status 0 stands for a transport error (timeout, connection failure);
\* json = FALSE for a body that does not decode to the expected document.
Statuses == {0, 200, 201, 429, 500}

\* GET api.odesli.co/resolve: id, type present?; linksByPlatform empty
\* ("none"), without appleMusic ("other") or with it ("apple", url).
OdesliApiResponses ==
  [status : Statuses, json : BOOLEAN, id : BOOLEAN, type : BOOLEAN,
   links : {"none", "other"}, url : {NoLink}]
  \cup [status : Statuses, json : BOOLEAN, id : BOOLEAN, type : BOOLEAN,
        links : {"apple"}, url : Links \cup {NoLink}]

\* Mutant: a 429 of the API swallowed like any other status.
OdesliApi_SwallowsRateLimit(r) ==
  IF r.status # 200 THEN RetNone
  ELSE IF ~r.json THEN RetNone
  ELSE IF r.links = "apple" /\ r.url # NoLink THEN RetLink(r.url)
  ELSE IF ~r.id \/ ~r.type
       THEN (IF r.links = "none" /\ ~r.id THEN RaiseSoft ELSE RetNone)
  ELSE NextStep
\* Lines 84-122.
OdesliApi(r) ==
  IF r.status = 0 THEN RetNone
  ELSE IF r.status = 429 THEN RaiseHard
  ELSE IF r.status # 200 THEN RetNone
  ELSE IF ~r.json THEN RetNone
  ELSE IF r.links = "apple" /\ r.url # NoLink THEN RetLink(r.url)
  ELSE IF ~r.id \/ ~r.type
       THEN (IF r.links = "none" /\ ~r.id THEN RaiseSoft ELSE RetNone)
  ELSE NextStep

\* GET song.link/<slug>/<id>: next_data = the __NEXT_DATA__ script is present
\* and parses; url = the appleMusic link of sections/links, if any.
PageResponses == [status : Statuses, next_data : BOOLEAN, url : Links \cup {NoLink}]

\* Mutant: a transport error of the page request taken for a rate limit.
OdesliPage_ErrorAsRateLimit(r) ==
  IF r.status = 0 THEN RaiseHard
  ELSE IF r.status = 429 THEN RaiseHard
  ELSE IF r.status # 200 THEN RetNone
  ELSE IF ~r.next_data THEN RetNone
  ELSE RetLink(r.url)
\* Lines 126-166.
OdesliPage(r) ==
  IF r.status = 0 THEN RetNone
  ELSE IF r.status = 429 THEN RaiseHard
  ELSE IF r.status # 200 THEN RetNone
  ELSE IF ~r.next_data THEN RetNone
  ELSE RetLink(r.url)

\* POST tapelink.io/api/generate-link: success flag, class of the error
\* message ("rate": contains `rate` or `limit`), shareableLink present?
TapelinkGenerateResponses ==
  [status : Statuses, json : BOOLEAN, success : BOOLEAN,
   error : {"rate", "other"}, stub : BOOLEAN]

\* Lines 188-212.
TapelinkGenerate(r) ==
  IF r.status = 0 THEN RetNone
  ELSE IF r.status = 429 THEN RaiseHard
  ELSE IF r.status # 200 THEN RetNone
  ELSE IF ~r.json THEN RetNone
  ELSE IF ~r.success THEN (IF r.error = "rate" THEN RaiseSoft ELSE RetNone)
  ELSE IF ~r.stub THEN RetNone
  ELSE NextStep

\* Lines 217-254: the share page; url = platforms.apple_music.
TapelinkPage(r) ==
  IF r.status = 0 THEN RetNone
  ELSE IF r.status = 429 THEN RaiseHard
  ELSE IF r.status # 200 THEN RetNone
  ELSE IF ~r.next_data THEN RetNone
  ELSE RetLink(r.url)

\* POST squigly.link/api/create.
SquiglyCreateResponses == [status : Statuses, json : BOOLEAN, slug : BOOLEAN]

\* Lines 277-289.
SquiglyCreate(r) ==
  IF r.status = 0 THEN RetNone
  ELSE IF r.status = 429 THEN RaiseHard
  ELSE IF r.status \notin {200, 201} THEN RetNone
  ELSE IF ~r.json THEN RetNone
  ELSE IF ~r.slug THEN RetNone
  ELSE NextStep

\* GET squigly.link/api/resolve/<slug>; url = services.apple.url.
SquiglyResolveResponses == [status : Statuses, json : BOOLEAN, url : Links \cup {NoLink}]

\* Lines 292-316.
SquiglyResolve(r) ==
  IF r.status = 0 THEN RetNone
  ELSE IF r.status = 429 THEN RaiseHard
  ELSE IF r.status # 200 THEN RetNone
  ELSE IF ~r.json THEN RetNone
  ELSE RetLink(r.url)

\* The responses the first and the second request of provider p's resolver
\* can meet.
StepResponses(p, http_step) ==
  IF p = Odesli THEN (IF http_step = 1 THEN OdesliApiResponses ELSE PageResponses)
  ELSE IF p = Tapelink
  THEN (IF http_step = 1 THEN TapelinkGenerateResponses ELSE PageResponses)
  ELSE (IF http_step = 1 THEN SquiglyCreateResponses ELSE SquiglyResolveResponses)

\* What the response r to that request leads the resolver to.
ResolverStep(p, http_step, r) ==
  IF p = Odesli THEN (IF http_step = 1 THEN OdesliApi(r) ELSE OdesliPage(r))
  ELSE IF p = Tapelink THEN (IF http_step = 1 THEN TapelinkGenerate(r) ELSE TapelinkPage(r))
  ELSE (IF http_step = 1 THEN SquiglyCreate(r) ELSE SquiglyResolve(r))

\* What a request of the resolver can lead to, and whether by a transport
\* error, over every response.
StepOutcomesTable ==
  [p \in Providers |->
     [http_step \in {1, 2} |->
        {[out |-> ResolverStep(p, http_step, r), error |-> TransportError(r)] :
           r \in StepResponses(p, http_step)}]]
StepOutcomes(p, http_step) == StepOutcomesTable[p][http_step]

\* The outcomes of a resolver's first and second request, over every response.
FirstStepOutcomes(p) == {ResolverStep(p, 1, r) : r \in StepResponses(p, 1)}
SecondStepOutcomes(p) == {ResolverStep(p, 2, r) : r \in StepResponses(p, 2)}

\* -------------------------------------------------------------------- merge
\* Line 483: key=lambda x: x['date'] if x['date'] else '9999-99-99'.
Sentinel == StrDate(<<"9","9","9","9","-","9","9","-","9","9">>)
\* Mutant: a minimal instead of a maximal sentinel.
SortKey_MinSentinel(x) ==
  IF Truthy(x.date) THEN x.date
  ELSE StrDate(<<"0","0","0","0","-","0","0","-","0","0">>)

SortKey(x) == IF Truthy(x.date) THEN x.date ELSE Sentinel

\* A number of Python: an int, or a bool taken as 0 or 1.
IsNumber(d) == d.kind \in {"num", "bool"}
NumberOf(d) == IF d.kind = "bool" THEN (IF d.s[1] THEN 1 ELSE 0) ELSE d.s[1]

\* a == b of two values json.loads returns.
RECURSIVE PyEq(_, _)
PyEq(a, b) ==
  IF IsNumber(a) /\ IsNumber(b) THEN NumberOf(a) = NumberOf(b)
  ELSE IF a.kind # b.kind THEN FALSE
  ELSE CASE a.kind = "str" -> a.s = b.s
         [] a.kind = "null" -> TRUE
         [] a.kind = "list" ->
              /\ Len(a.s) = Len(b.s)
              /\ \A k \in 1..Len(a.s) : PyEq(a.s[k], b.s[k])
         [] a.kind = "dict" ->
              /\ Len(DictItems(a)) = Len(DictItems(b))
              /\ \A k \in 1..Len(DictItems(a)) :
                   /\ HasKey(b, DictItems(a)[k][1])
                   /\ PyEq(DictItems(a)[k][2], GetKey(b, DictItems(a)[k][1]))

\* a < b of two such values: "yes", "no", or "raise" for the TypeError of
\* two values without an order.  Numbers compare by value, strings by code
\* point, lists by their first unequal items or else by length.
RECURSIVE PyLess(_, _)
PyLess(a, b) ==
  IF IsNumber(a) /\ IsNumber(b)
  THEN (IF NumberOf(a) < NumberOf(b) THEN "yes" ELSE "no")
  ELSE IF a.kind = "str" /\ b.kind = "str"
  THEN (IF StrLess(a.s, b.s) THEN "yes" ELSE "no")
  ELSE IF a.kind = "list" /\ b.kind = "list"
  THEN LET unequal == {k \in 1..Min(Len(a.s), Len(b.s)) : ~PyEq(a.s[k], b.s[k])}
           first == CHOOSE k \in unequal : \A j \in unequal : k <= j
       IN IF unequal = {}
          THEN (IF Len(a.s) < Len(b.s) THEN "yes" ELSE "no")
          ELSE PyLess(a.s[first], b.s[first])
  ELSE "raise"

\* `<` of the keys of two records.
KeyLess(a, b) == PyLess(SortKey(a), SortKey(b)) = "yes"

\* list.sort is stable: an element goes after every element not greater.
\* results holds at most two records (one per primary, or the fallback's),
\* for which list.sort makes one comparison, of the second key with the
\* first.
RECURSIVE InsertRaises(_, _)
InsertRaises(x, sorted) ==
  /\ sorted # <<>>
  /\ \/ PyLess(SortKey(x), SortKey(Head(sorted))) = "raise"
     \/ /\ PyLess(SortKey(x), SortKey(Head(sorted))) = "no"
        /\ InsertRaises(x, Tail(sorted))
RECURSIVE InsertByKey(_, _)
InsertByKey(x, sorted) ==
  IF sorted = <<>> THEN <<x>>
  ELSE IF KeyLess(x, Head(sorted)) THEN <<x>> \o sorted
  ELSE <<Head(sorted)>> \o InsertByKey(x, Tail(sorted))

RECURSIVE SortByDate(_)
SortByDate(rs) ==
  IF rs = <<>> THEN <<>>
  ELSE InsertByKey(rs[Len(rs)], SortByDate(SubSeq(rs, 1, Len(rs) - 1)))

\* A comparison of the sort raises TypeError.
RECURSIVE SortRaises(_)
SortRaises(rs) ==
  /\ Len(rs) >= 2
  /\ \/ SortRaises(SubSeq(rs, 1, Len(rs) - 1))
     \/ InsertRaises(rs[Len(rs)], SortByDate(SubSeq(rs, 1, Len(rs) - 1)))

\* Lines 483-484: results.sort(...); best_match = results[0].
BestMatch(rs) == SortByDate(rs)[1]

\* ------------------------------------------------------------------- tracks
TrackPool == <<[id |-> "t1", isrc |-> "i1"], [id |-> "t2", isrc |-> "i2"],
               [id |-> "t3", isrc |-> "i3"]>>
NoTrack == [id |-> "", isrc |-> ""]

Update(t, genres, at) ==
  [isrc |-> t.isrc, track_id |-> t.id, apple_music_genres |-> genres, updated_at |-> at]
NoUpdate == Update(NoTrack, "", 0)

\* int(time.time())
IntTime(t) == t \div 2

\* -------------------------------------------------------------------- state
VARIABLES
  now,            \* time.time(), in ticks
  cooldownUntil,  \* ODESLI_/TAPELINK_/SQUIGLY_COOLDOWN_UNTIL, in ticks
  pc,             \* position of the main thread
  fetches,        \* fetches issued so far
  called,         \* process_track calls so far
  tracks,         \* run_job: tracks of the current cycle
  idx,            \* run_job: 1-based position of the for loop
  updates,        \* run_job: the pending batch
  total_sent,     \* run_job: total_sent
  retry_count,    \* process_track: retry_count
  results,        \* process_track: results
  should_retry,   \* process_track: should_retry
  worker,         \* the two pool threads running check_provider
  sqlink,         \* process_track: link returned by resolve_squigly
  ret,            \* what process_track returned or raised
  attempt,        \* history: attempts started in this call
  waits,          \* history: backoff waits of this call, in seconds
  signals,        \* history: providers that raised a rate-limit signal this attempt
  reqs,           \* history: resolver requests sent per provider this attempt
  limitedAt,      \* history: when the last signal of a provider was handled
  appendLog,      \* history: track ids appended to updates this cycle
  arrivals,       \* history: the metadata results in the order they were collected
  errors,         \* providers that met a transport error in this attempt
  sent,           \* history: the calls of send_updates_to_turso, kept when
                  \* run_job is examined on its own
  call,           \* a single call of one function, examined on its own
  returned        \* what that call returned or raised

jobState == <<now, cooldownUntil, pc, fetches, called, tracks, idx, updates, total_sent,
              retry_count, results, should_retry, worker, sqlink, ret,
              attempt, waits, signals, reqs, limitedAt, appendLog, arrivals,
              errors, sent>>
vars == <<jobState, call, returned>>

jobVars == <<fetches, called, tracks, idx, updates, total_sent, appendLog>>

Fut(kind, meta) == [kind |-> kind, meta |-> meta]
W(wpc, link, out) == [pc |-> wpc, link |-> link, out |-> out]
IdleWorker == W("idle", NoLink, Fut("none", NoMeta))

\* No single call is under examination while the job runs.
NoCall == [fn |-> "-"]
NotReturned == [done |-> FALSE]

\* The module after import, before run_job() is called.
Loaded ==
  /\ now = START_TIME
  /\ cooldownUntil = [p \in Providers |-> 0]
  /\ pc = "job_start"
  /\ fetches = 0
  /\ called = 0
  /\ tracks = <<>>
  /\ idx = 1
  /\ updates = <<>>
  /\ total_sent = 0
  /\ retry_count = 0
  /\ results = <<>>
  /\ should_retry = FALSE
  /\ worker = [p \in Primaries |-> IdleWorker]
  /\ sqlink = NoLink
  /\ ret = [kind |-> "-", upd |-> NoUpdate]
  /\ attempt = 0
  /\ waits = <<>>
  /\ signals = {}
  /\ reqs = [p \in Providers |-> 0]
  /\ limitedAt = [p \in Providers |-> 0]
  /\ appendLog = <<>>
  /\ arrivals = <<>>
  /\ errors = {}
  /\ sent = <<>>

Init == Loaded /\ call = NoCall /\ returned = NotReturned

NoRet == [kind |-> "-", upd |-> NoUpdate]
ptVars == <<retry_count, results, should_retry, worker, sqlink, ret,
            attempt, waits, signals, reqs, arrivals, errors>>

\* ------------------------------------------------------------------ run_job
\* The history of submissions after send_updates_to_turso(batch) returned ok
\* in the cycle of the current fetch; it is kept only when run_job is examined
\* on its own.
Recorded(batch, ok) ==
  IF call.fn = "run_job"
  THEN Append(sent, [cycle |-> fetches, batch |-> batch, ok |-> ok])
  ELSE sent

\* Lines 528-530: run_job returns at once unless TURSO_WORKER_URL is set.
RunJobStart ==
  /\ pc = "job_start"
  /\ \E worker_url_set \in BOOLEAN :
       pc' = IF worker_url_set THEN "job_loop" ELSE "done"
  /\ UNCHANGED <<call, returned, sent, now, cooldownUntil, limitedAt, jobVars, ptVars>>

\* Line 536 and line 569: the run-time budget.
\* Mutant: the run has no time budget.
BudgetLeft_Unlimited == TRUE

BudgetLeft == (now - START_TIME) < Ticks(MAX_RUNTIME_SECONDS)

\* Mutant: the pending list is carried over into the next cycle.
FreshBatch_CarriedOver == updates

\* Line 565: `updates = []` before the loop over the fetched tracks.
FreshBatch == <<>>

\* Lines 536-566: one pass of the while loop up to the for loop, for at most
\* cap fetches.  The fetch fails (n = -1), is answered with no track (n = 0)
\* or with the first n tracks of queue, n drawn from sizes.
Fetch(cap, sizes, queue) ==
  /\ pc = "job_loop"
  /\ IF ~BudgetLeft
     THEN /\ pc' = "done"
          /\ UNCHANGED <<now, jobVars>>
     ELSE /\ fetches < cap
          /\ fetches' = fetches + 1
          /\ \E n \in sizes :
               IF n = -1
               THEN /\ now' = now + Ticks(FETCH_FAIL_SLEEP)
                    /\ pc' = "job_loop"
                    /\ UNCHANGED <<called, tracks, idx, updates, total_sent, appendLog>>
               ELSE IF n = 0
               THEN /\ now' = now + Ticks(NO_TRACKS_SLEEP)
                    /\ pc' = "job_loop"
                    /\ tracks' = <<>>
                    /\ UNCHANGED <<called, idx, updates, total_sent, appendLog>>
               ELSE /\ tracks' = SubSeq(queue, 1, n)
                    /\ updates' = FreshBatch
                    /\ total_sent' = 0
                    /\ idx' = 1
                    /\ appendLog' = <<>>
                    /\ pc' = "for_head"
                    /\ UNCHANGED <<now, called>>
  /\ UNCHANGED <<call, returned, sent, cooldownUntil, limitedAt, ptVars>>

RunJobFetch == Fetch(MaxFetches, -1..(MaxTracks - called), TrackPool)

\* Lines 568-574: the head of the for loop; calls process_track (lines
\* 402-420) unless the tracks are exhausted or the budget is spent.
RunJobNextTrack ==
  /\ pc = "for_head"
  /\ IF idx > Len(tracks) \/ ~BudgetLeft
     THEN /\ pc' = "final_send"
          /\ UNCHANGED <<called, retry_count, attempt, waits>>
     ELSE /\ pc' = "pt_attempt"
          /\ called' = called + 1
          /\ retry_count' = 0
          /\ attempt' = 0
          /\ waits' = <<>>
  /\ UNCHANGED <<call, returned, sent, now, cooldownUntil, limitedAt, fetches, tracks, idx, updates,
                 total_sent, appendLog, results, should_retry, worker, sqlink,
                 ret, signals, reqs, arrivals, errors>>

\* Mutant: a batch is dropped after its submission, sent or not.
AfterSend_DropsFailed(batch, ok) == <<>>

\* Lines 591-596: the pending list after send_updates_to_turso(batch)
\* returned ok inside the loop.
AfterSend(batch, ok) == IF ok THEN <<>> ELSE batch

\* Lines 575-596: the rest of one iteration, after process_track returned or
\* raised: append, sleep REQUEST_DELAY, flush a full batch.
RunJobRecord ==
  /\ pc = "job_record"
  /\ LET appended ==
           IF ret.kind = "raise" THEN updates
           ELSE IF ret.kind = "update" THEN Append(updates, ret.upd)
           ELSE Append(updates, Update(tracks[idx], "[]", IntTime(now)))
     IN /\ appendLog' = IF ret.kind = "raise" THEN appendLog
                        ELSE Append(appendLog, tracks[idx].id)
        /\ IF Len(appended) >= BATCH_SIZE
           THEN \E ok \in BOOLEAN :
                  /\ updates' = AfterSend(appended, ok)
                  /\ total_sent' = IF ok THEN total_sent + Len(appended) ELSE total_sent
                  /\ sent' = Recorded(appended, ok)
           ELSE /\ updates' = appended
                /\ total_sent' = total_sent
                /\ sent' = sent
  /\ now' = now + REQUEST_DELAY
  /\ idx' = idx + 1
  /\ pc' = "for_head"
  /\ ret' = NoRet
  /\ results' = <<>>
  /\ arrivals' = <<>>
  /\ should_retry' = FALSE
  /\ worker' = [p \in Primaries |-> IdleWorker]
  /\ sqlink' = NoLink
  /\ signals' = {}
  /\ reqs' = [p \in Providers |-> 0]
  /\ errors' = {}
  /\ UNCHANGED <<call, returned, cooldownUntil, limitedAt, fetches, called, tracks, retry_count,
                 attempt, waits>>

\* Lines 598-606: the final batch of the cycle, then the next cycle.
RunJobFinalSend ==
  /\ pc = "final_send"
  /\ IF updates # <<>>
     THEN \E ok \in BOOLEAN :
            /\ total_sent' = IF ok THEN total_sent + Len(updates) ELSE total_sent
            /\ sent' = Recorded(updates, ok)
     ELSE /\ total_sent' = total_sent
          /\ sent' = sent
  /\ pc' = "job_loop"
  /\ UNCHANGED <<call, returned, now, cooldownUntil, limitedAt, fetches, called, tracks, idx,
                 updates, appendLog, ptVars>>

\* ------------------------------------------------------------ process_track
\* Mutant: the comparison made non-strict.
DispatchAllowed_NonStrict(p) == now >= cooldownUntil[p]

\* Lines 431, 436 and 465: time.time() > <P>_COOLDOWN_UNTIL.
DispatchAllowed(p) == now > cooldownUntil[p]

\* Lines 77, 175 and 263: the resolver's own check, time.time() < until.
ResolverSkips(p) == now < cooldownUntil[p]

\* Mutant: the cooldown set to the fetch-failure pause instead of 120 s.
CooldownFrom_Short(t) == t + Ticks(FETCH_FAIL_SLEEP)

\* Lines 450, 452, 457, 459 and 475: time.time() + 120, at time t.
CooldownFrom(t) == t + Ticks(COOLDOWN_SECONDS)

\* Mutant: the handlers write the other primary's global.
HandlerTarget_Swapped(provider_name) ==
  IF provider_name = Odesli THEN Tapelink ELSE Odesli

\* Lines 449-452 and 456-459: the global a handler of provider_name writes.
HandlerTarget(provider_name) == IF provider_name = Odesli THEN Odesli ELSE Tapelink

\* Mutant: off by one.
MayRetry_OffByOne(rc) == rc <= MAX_RETRIES

\* Line 422 and line 496: retry_count < max_retries.
MayRetry(rc) == rc < MAX_RETRIES

\* Line 497: wait_time = min(30 * retry_count, 120).
BackoffWait(rc) == Min(BACKOFF_STEP * rc, BACKOFF_CAP)

\* Mutant: every attempt without result is retried.
RetryFlagged_Always == TRUE

\* Mutant: a rate limit of any provider, the fallback included, is retried.
RetryFlagged_AnySignal == signals # {}

\* Line 494: if should_retry.
RetryFlagged == should_retry

\* Mutant: the fallback skipped once a primary signalled a rate limit.
FallbackDue_NoSignal == results = <<>> /\ ~should_retry /\ DispatchAllowed(Squigly)

\* Line 465: the condition of the fallback phase.
FallbackDue == results = <<>> /\ DispatchAllowed(Squigly)

\* Lines 431-434 and 436-439: executor.submit for primary p unless it is on
\* cooldown; the pool thread of a submitted primary runs from then on.
Submitted(p) ==
  IF DispatchAllowed(p) THEN W("start", NoLink, Fut("none", NoMeta)) ELSE IdleWorker

\* Lines 422-434: the head of an attempt up to the submission of Odesli.
StartAttempt ==
  /\ pc = "pt_attempt"
  /\ MayRetry(retry_count)
  /\ results' = <<>>
  /\ arrivals' = <<>>
  /\ should_retry' = FALSE
  /\ worker' = [p \in Primaries |-> IF p = Odesli THEN Submitted(p) ELSE IdleWorker]
  /\ attempt' = attempt + 1
  /\ signals' = {}
  /\ reqs' = [p \in Providers |-> 0]
  /\ errors' = {}
  /\ pc' = "pt_submit"
  /\ UNCHANGED <<call, returned, sent, now, cooldownUntil, limitedAt, jobVars, retry_count, sqlink, ret, waits>>

\* Lines 436-439: the submission of Tapelink, with Odesli's pool thread
\* already running; the as_completed loop follows.
SubmitTapelink ==
  /\ pc = "pt_submit"
  /\ worker' = [worker EXCEPT ![Tapelink] = Submitted(Tapelink)]
  /\ pc' = "pt_collect"
  /\ UNCHANGED <<call, returned, sent, now, cooldownUntil, limitedAt, jobVars, retry_count,
                 results, should_retry, sqlink, ret, attempt, waits, signals,
                 reqs, arrivals, errors>>

\* Where a pool thread stands after a resolver step with outcome o.
AfterStep(o) ==
  IF o.kind = "next" THEN W("step2", NoLink, Fut("none", NoMeta))
  ELSE IF o.kind = "link" THEN W("scrape", o.url, Fut("none", NoMeta))
  ELSE W("done", NoLink, Fut(o.kind, NoMeta))

\* check_provider in a pool thread: the resolver's cooldown check and its
\* first request (lines 77-122, 175-212).
WorkerFirst(p) ==
  /\ worker[p].pc = "start"
  /\ IF ResolverSkips(p)
     THEN /\ worker' = [worker EXCEPT ![p] = W("done", NoLink, Fut("none", NoMeta))]
          /\ UNCHANGED <<now, reqs, errors>>
     ELSE /\ \E o \in StepOutcomes(p, 1) :
               /\ worker' = [worker EXCEPT ![p] = AfterStep(o.out)]
               /\ errors' = IF o.error THEN errors \cup {p} ELSE errors
          /\ reqs' = [reqs EXCEPT ![p] = @ + 1]
          /\ now' = now
  /\ UNCHANGED <<call, returned, sent, cooldownUntil, limitedAt, pc, jobVars, retry_count, results,
                 should_retry, sqlink, ret, attempt, waits, signals, arrivals>>

\* The resolver's second request (lines 124-166, 214-254).
WorkerSecond(p) ==
  /\ worker[p].pc = "step2"
  /\ \E o \in StepOutcomes(p, 2) :
       /\ worker' = [worker EXCEPT ![p] = AfterStep(o.out)]
       /\ errors' = IF o.error THEN errors \cup {p} ELSE errors
       /\ reqs' = [reqs EXCEPT ![p] = @ + 1]
  /\ UNCHANGED <<call, returned, sent, now, cooldownUntil, limitedAt, pc, jobVars, retry_count, results,
                 should_retry, sqlink, ret, attempt, waits, signals, arrivals>>

\* Lines 411-412: scrape_apple_metadata(link) in the pool thread.
WorkerScrape(p) ==
  /\ worker[p].pc = "scrape"
  /\ \E o \in ScrapeOutcomes(worker[p].link) :
       /\ worker' = [worker EXCEPT ![p] =
                       W("done", NoLink,
                         Fut(IF o.meta = NoMeta THEN "none" ELSE "meta", o.meta))]
       /\ errors' = IF o.error THEN errors \cup {p} ELSE errors
  /\ UNCHANGED <<call, returned, sent, now, cooldownUntil, limitedAt, pc, jobVars, retry_count, results,
                 should_retry, sqlink, ret, attempt, waits, signals, reqs, arrivals>>

\* Mutant: the soft handler sets the fetch-failure pause instead of 120 s.
HandlerCooldown_SoftShort(kind, t) ==
  IF kind = "soft" THEN t + Ticks(FETCH_FAIL_SLEEP) ELSE CooldownFrom(t)

\* Lines 450 and 452 in the handler of RateLimitException (kind "hard"),
\* lines 457 and 459 in that of SoftRateLimitException (kind "soft"): the
\* cooldown either handler sets at time t.
HandlerCooldown(kind, t) == CooldownFrom(t)

\* Lines 443-462: what the loop body does with out, the result or the
\* exception future.result() gives for provider p.
HandleFuture(p, out) ==
  IF out.kind = "meta"
  THEN /\ results' = Append(results, out.meta)
       /\ arrivals' = Append(arrivals, out.meta)
       /\ UNCHANGED <<cooldownUntil, limitedAt, should_retry, signals>>
  ELSE IF out.kind \in {"hard", "soft"}
  THEN /\ cooldownUntil' = [cooldownUntil EXCEPT
                              ![HandlerTarget(p)] = HandlerCooldown(out.kind, now)]
       /\ limitedAt' = [limitedAt EXCEPT ![p] = now]
       /\ should_retry' = TRUE
       /\ signals' = signals \cup {p}
       /\ UNCHANGED <<results, arrivals>>
  ELSE UNCHANGED <<cooldownUntil, limitedAt, should_retry, signals, results, arrivals>>

\* Lines 441-462: one pass of the as_completed loop, for a finished future.
Collect(p) ==
  /\ pc = "pt_collect"
  /\ worker[p].pc = "done"
  /\ worker' = [worker EXCEPT ![p] = W("collected", NoLink, worker[p].out)]
  /\ HandleFuture(p, worker[p].out)
  /\ UNCHANGED <<call, returned, sent, errors, now, pc, jobVars, retry_count, sqlink, ret, attempt, waits, reqs>>

\* Mutant: the as_completed loop ends with the first finished future.
PoolDone_FirstDone == \E p \in Primaries : worker[p].pc \in {"idle", "collected"}

\* Lines 441 and 428: as_completed has yielded every submitted future and
\* the with block of the executor is left.
PoolDone == \A p \in Primaries : worker[p].pc \in {"idle", "collected"}

\* Line 465: after the pool has shut down, the fallback condition.
PhaseTwo ==
  /\ pc = "pt_collect"
  /\ PoolDone
  /\ pc' = IF FallbackDue THEN "sq_create" ELSE "pt_decide"
  /\ UNCHANGED <<call, returned, sent, now, cooldownUntil, limitedAt, jobVars, ptVars>>

\* Lines 473-475: except RateLimitException around the fallback, at time t.
SquiglyLimited(t) ==
  /\ cooldownUntil' = [cooldownUntil EXCEPT ![Squigly] = CooldownFrom(t)]
  /\ limitedAt' = [limitedAt EXCEPT ![Squigly] = t]
  /\ signals' = signals \cup {Squigly}

\* The main thread after a step of resolve_squigly with outcome o at time t.
AfterSquigly(o, t) ==
  /\ IF o.kind = "hard" THEN SquiglyLimited(t)
     ELSE UNCHANGED <<cooldownUntil, limitedAt, signals>>
  /\ pc' = IF o.kind = "next" THEN "sq_resolve"
           ELSE IF o.kind = "link" THEN "sq_scrape"
           ELSE "pt_decide"
  /\ sqlink' = IF o.kind = "link" THEN o.url ELSE NoLink

\* Lines 468, 263-289: resolve_squigly's cooldown check and first request.
SquiglyFirst ==
  /\ pc = "sq_create"
  /\ IF ResolverSkips(Squigly)
     THEN /\ pc' = "pt_decide"
          /\ UNCHANGED <<now, reqs, cooldownUntil, limitedAt, signals, sqlink, errors>>
     ELSE \E o \in StepOutcomes(Squigly, 1), d \in NetDelays :
            /\ now' = now + d
            /\ reqs' = [reqs EXCEPT ![Squigly] = @ + 1]
            /\ errors' = IF o.error THEN errors \cup {Squigly} ELSE errors
            /\ AfterSquigly(o.out, now + d)
  /\ UNCHANGED <<call, returned, sent, jobVars, retry_count, results, should_retry, worker, ret,
                 attempt, waits, arrivals>>

\* Lines 291-316: resolve_squigly's second request.
SquiglySecond ==
  /\ pc = "sq_resolve"
  /\ \E o \in StepOutcomes(Squigly, 2) :
       /\ reqs' = [reqs EXCEPT ![Squigly] = @ + 1]
       /\ errors' = IF o.error THEN errors \cup {Squigly} ELSE errors
       /\ AfterSquigly(o.out, now)
  /\ UNCHANGED <<call, returned, sent, now, jobVars, retry_count, results, should_retry, worker, ret,
                 attempt, waits, arrivals>>

\* Lines 469-472: the fallback's metadata.
SquiglyScrape ==
  /\ pc = "sq_scrape"
  /\ \E o \in ScrapeOutcomes(sqlink) :
       /\ results' = IF o.meta = NoMeta THEN results ELSE Append(results, o.meta)
       /\ arrivals' = IF o.meta = NoMeta THEN arrivals ELSE Append(arrivals, o.meta)
       /\ errors' = IF o.error THEN errors \cup {Squigly} ELSE errors
  /\ sqlink' = NoLink
  /\ pc' = "pt_decide"
  /\ UNCHANGED <<call, returned, sent, now, cooldownUntil, limitedAt, jobVars, retry_count, should_retry,
                 worker, ret, attempt, waits, signals, reqs>>

\* Lines 481-505: the end of an attempt: return the best match, or back off
\* and retry, or give up.  The futures of the attempt are gone by now.
Decide ==
  /\ pc = "pt_decide"
  /\ IF results # <<>>
     THEN /\ IF SortRaises(results)
             THEN /\ ret' = [kind |-> "raise", upd |-> NoUpdate]
                  /\ results' = results
             ELSE /\ ret' = [kind |-> "update",
                             upd |-> Update(tracks[idx],
                                            GenresJson(BestMatch(results).genres),
                                            IntTime(now))]
                  /\ results' = SortByDate(results)
          /\ pc' = "job_record"
          /\ UNCHANGED <<now, retry_count, waits>>
     ELSE IF RetryFlagged
     THEN /\ retry_count' = retry_count + 1
          /\ IF MayRetry(retry_count + 1)
             THEN /\ now' = now + Ticks(BackoffWait(retry_count + 1))
                  /\ waits' = Append(waits, BackoffWait(retry_count + 1))
                  /\ pc' = "pt_attempt"
                  /\ ret' = ret
             ELSE /\ pc' = "job_record"
                  /\ ret' = [kind |-> "none", upd |-> NoUpdate]
                  /\ UNCHANGED <<now, waits>>
          /\ results' = results
     ELSE /\ pc' = "job_record"
          /\ ret' = [kind |-> "none", upd |-> NoUpdate]
          /\ UNCHANGED <<now, retry_count, waits, results>>
  /\ worker' = [p \in Primaries |-> IdleWorker]
  /\ errors' = {}
  /\ UNCHANGED <<call, returned, sent, cooldownUntil, limitedAt, jobVars,
                 should_retry, sqlink, attempt, signals, reqs, arrivals>>

\* --------------------------------------------------------------------- spec
ProcessTrackNext ==
  \/ StartAttempt
  \/ SubmitTapelink
  \/ \E p \in Primaries : WorkerFirst(p)
  \/ \E p \in Primaries : WorkerSecond(p)
  \/ \E p \in Primaries : WorkerScrape(p)
  \/ \E p \in Primaries : Collect(p)
  \/ PhaseTwo
  \/ SquiglyFirst
  \/ SquiglySecond
  \/ SquiglyScrape
  \/ Decide

Next ==
  \/ RunJobStart
  \/ RunJobFetch
  \/ RunJobNextTrack
  \/ RunJobRecord
  \/ RunJobFinalSend
  \/ ProcessTrackNext

Spec == Init /\ [][Next]_vars

\* process_track's thread and the two pool threads keep running, and every
\* request has a timeout and every sleep an end: a step of process_track that
\* can be taken is taken.
FairSpec == Spec /\ WF_vars(ProcessTrackNext)

\* ------------------------------------------- scrape_apple_metadata alone
\* The dates a block carries.
Year2018 == StrDate(<<"2","0","1","8">>)
Month2020 == StrDate(<<"2","0","2","0","-","0","5">>)
Day2020 == StrDate(<<"2","0","2","0","-","0","5","-","1","7">>)
DateUnder(key, date) == <<key, JDict(<< <<"datePublished", date>> >>)>>
Named == JDict(<< <<"name", JStr(Pop)>> >>)

\* The date fields of a block: none, at the top level, under audio, under
\* inAlbum, and at several of these places.
TopDates ==
  {<< <<"datePublished", d>> >> :
     d \in {Year2018, Month2020, Day2020, NoDate, StrDate(<<>>), JNum(2018), ObjDate,
            JList(<<JNum(2), JNum(0), JNum(1), JNum(8)>>)}}
NestedDates ==
  { << DateUnder("audio", Year2018) >>,
    << DateUnder("audio", Day2020) >>,
    << DateUnder("inAlbum", Month2020) >>,
    << DateUnder("inAlbum", Date2019) >>,
    << <<"audio", Named>>, DateUnder("inAlbum", Date2019) >>,
    << DateUnder("audio", Date2019), DateUnder("inAlbum", Date2021) >>,
    << DateUnder("audio", NoDate), DateUnder("inAlbum", Date2019) >>,
    << <<"audio", JNum(1)>>, DateUnder("inAlbum", Date2019) >>,
    << <<"audio", JStr(Chars("datePublished"))>> >>,
    << <<"audio", JList(<<JStr(Chars("datePublished"))>>)>>,
       DateUnder("inAlbum", Date2019) >>,
    << <<"audio", JStr(Chars("no date"))>>, DateUnder("inAlbum", Date2019) >>,
    << <<"inAlbum", JStr(Chars("x datePublished x"))>> >> }
MixedDates ==
  { << <<"datePublished", NoDate>>, DateUnder("audio", Date2019) >>,
    << <<"datePublished", Date2021>>, DateUnder("audio", Date2019) >>,
    << <<"datePublished", StrDate(<<>>)>>, DateUnder("inAlbum", Date2019) >>,
    << <<"datePublished", Date2019>>, <<"datePublished", Year2018>> >>,
    << DateUnder("audio", Date2019), <<"audio", Named>>, DateUnder("inAlbum", Month2020) >> }
DateFields == {<<>>} \cup TopDates \cup NestedDates \cup MixedDates

Dance == <<"D","a","n","c","e">>
\* The genre fields of a block.
GenreFields ==
  { <<>>,
    << <<"genre", JStr(Pop)>> >>,
    << <<"genre", JStr(<<"M","u","s","i","c">>)>> >>,
    << <<"genre", JStr(<<"P","o","p","/","D","a","n","c","e">>)>> >>,
    << <<"genre", JStr(<<"R","o","c","k","/","A","l","t","e","r","n","a","t","i","v","e">>)>> >>,
    << <<"genre", JStr(<<"S","i","n","g","e","r","/","S","o","n","g","w","r","i","t","e","r">>)>> >>,
    << <<"genre", JStr(<<" ","R","o","c","k"," ","/"," ">>)>> >>,
    << <<"genre", JStr(<<"P","o","p","/","/","m","u","s","i","c","/","P","o","p">>)>> >>,
    << <<"genre", JList(<<JStr(Pop), JStr(<<"M","U","S","I","C">>), JStr(Rock), JStr(Pop)>>)>> >>,
    << <<"genre", JStr(Chars("SINGER/SONGWRITER"))>> >>,
    << <<"genre", JStr(Chars("Music\r"))>> >>,
    << <<"genre", JStr(Chars("Pop \r/ R&B"))>> >>,
    << <<"genre", JStr(MusicaMexicana)>> >>,
    << <<"genre", JStr(Chars("Music "))>> >>,
    << <<"genre", JStr(Chars("Café /MÚSIC/MUSIC "))>> >>,
    << <<"genre", JStr(Pop)>>, <<"genre", JStr(Chars("Music"))>> >>,
    << <<"genre", JStr(Pop)>>, <<"name", JStr(Pop)>>, <<"genre", JStr(Rock)>> >>,
    << <<"genre", JNum(3)>> >>,
    << <<"genre", JDict(<< <<"genre", JStr(Pop)>> >>)>> >>,
    << <<"byArtist", JList(<<JDict(<< <<"genre", JStr(Rock)>> >>)>>)>>,
       <<"genre", JStr(Dance)>> >> }

\* The contents of one script tag.
Blocks ==
  {JDict(d \o g) : d \in DateFields, g \in GenreFields}
    \cup {BadJson, JNum(7), JList(<<Block(Date2019, Pop), Block(Date2021, Rock)>>),
          JStr(Chars("datePublished")),
          JList(<<JStr(Chars("datePublished")), Block(Date2019, Pop)>>)}
FirstBlocks ==
  { BadJson, JNum(7), JDict(<< <<"datePublished", Day2020>> >>),
    Block(Date2019, <<"m","u","s","i","c">>), Block(JNum(2018), Pop),
    Block(Date2019, Pop) }
SecondBlocks ==
  { JDict(<< <<"datePublished", Year2018>>,
             <<"genre", JStr(<<"P","o","p","/","D","a","n","c","e">>)>> >>),
    JDict(<< <<"name", JStr(Pop)>> >>),
    Block(Date2021, Rock) }

\* The calls of scrape_apple_metadata examined: pages of no, one and two
\* blocks, failed requests, and links in need of cleaning or empty.
ScrapeCalls ==
  {[fn |-> "scrape_apple_metadata", apple_url |-> LinkAGeo,
    response |-> PageResponse(200, matches)] :
     matches \in {<<>>} \cup {<<b>> : b \in Blocks}
                   \cup {<<a, b>> : a \in FirstBlocks, b \in SecondBlocks}}
  \cup
  {[fn |-> "scrape_apple_metadata", apple_url |-> link,
    response |-> PageResponse(status, <<Block(Date2019, Pop)>>)] :
     link \in {NoLink, LinkA, LinkD, LinkUpper, LinkRegion, LinkLong, LinkBare},
     status \in {0, 200, 404, 500}}

ReturnedValue(value) == [done |-> TRUE, value |-> value]

\* One call of scrape_apple_metadata, from the request to the return.
CallScrape ==
  /\ call.fn = "scrape_apple_metadata"
  /\ ~returned.done
  /\ \E meta \in scrape_apple_metadata(call.apple_url, call.response) :
       returned' = ReturnedValue(meta)
  /\ UNCHANGED <<jobState, call>>

\* The same call made once more, after the first has returned: the same link
\* and the same answer to the request; the function keeps nothing between
\* its calls (it reads SESSION and assigns no global).
CallScrapeAgain ==
  /\ call.fn = "scrape_apple_metadata"
  /\ returned.done
  /\ "again" \notin DOMAIN returned
  /\ \E meta \in scrape_apple_metadata(call.apple_url, call.response) :
       returned' = [done |-> TRUE, value |-> returned.value, again |-> meta]
  /\ UNCHANGED <<jobState, call>>

ExtractorInit == Loaded /\ call \in ScrapeCalls /\ returned = NotReturned
ExtractorNext == CallScrape \/ CallScrapeAgain
ExtractorSpec == ExtractorInit /\ [][ExtractorNext]_vars

\* ------------------------------------------------ find_key_recursive alone
\* The documents searched: every block json.loads accepts, and genre fields
\* inside lists and inside the values of genre fields.
FindKeyDocuments ==
  (Blocks \ {BadJson})
    \cup { JDict(<< <<"genre", JList(<<JDict(<< <<"genre", JStr(Pop)>> >>), JStr(Rock)>>)>> >>),
           JList(<<JDict(<< <<"genre", JList(<<JStr(Pop), JStr(Rock)>>)>> >>),
                   JList(<<JDict(<< <<"genre", JStr(Dance)>> >>)>>)>>),
           JDict(<< <<"audio", JDict(<< <<"inAlbum", JDict(<< <<"genre", JStr(Rock)>> >>)>> >>)>>,
                    <<"genre", NoDate>> >>),
           JDict(<< <<"a", JDict(<< <<"genre", JStr(Pop)>> >>)>>,
                    <<"a", JDict(<< <<"genre", JStr(Rock)>> >>)>> >>),
           JList(<<JNum(1), JList(<<JDict(<< <<"genre", JStr(Pop)>> >>)>>),
                   JDict(<< <<"x", JDict(<< <<"genre", JList(<<JStr(Dance)>>)>> >>)>>,
                            <<"x", JNum(2)>> >>)>>),
           JStr(Pop), NoDate }
FindKeyCalls ==
  {[fn |-> "find_key_recursive", data |-> data, target_key |-> target_key] :
     data \in FindKeyDocuments, target_key \in {"genre", "datePublished"}}

\* One call of find_key_recursive.
CallFindKey ==
  /\ call.fn = "find_key_recursive"
  /\ ~returned.done
  /\ returned' = ReturnedValue(find_key_recursive(call.data, call.target_key))
  /\ UNCHANGED <<jobState, call>>

FindKeyInit == Loaded /\ call \in FindKeyCalls /\ returned = NotReturned
FindKeyNext == CallFindKey
FindKeySpec == FindKeyInit /\ [][FindKeyNext]_vars

\* ------------------------------------------------------- one resolver step
\* The function of each provider.
ResolverName(p) ==
  IF p = Odesli THEN "resolve_odesli"
  ELSE IF p = Tapelink THEN "resolve_tapelink" ELSE "resolve_squigly"
ProviderOf(fn) == CHOOSE p \in Providers : ResolverName(p) = fn

\* The response a resolver's request meets, for each resolver and each of
\* its two requests.
ResolverCalls ==
  UNION {{[fn |-> ResolverName(p), http_step |-> http_step, response |-> r] :
            r \in StepResponses(p, http_step)} : p \in Providers, http_step \in {1, 2}}

\* One request of a resolver, from the response to what the resolver does.
CallResolver ==
  /\ call.fn \in {ResolverName(p) : p \in Providers}
  /\ ~returned.done
  /\ returned' =
       ReturnedValue(ResolverStep(ProviderOf(call.fn), call.http_step, call.response))
  /\ UNCHANGED <<jobState, call>>

ResolverInit == Loaded /\ call \in ResolverCalls /\ returned = NotReturned
ResolverNext == CallResolver
ResolverSpec == ResolverInit /\ [][ResolverNext]_vars

\* ------------------------------------------------------------ run_job alone
\* run_job() with each call of process_track taken from call to return.  The server
\* holds QueueLength tracks without Apple genres; a track leaves the list once
\* an update for it was part of a submission that succeeded.
Queue ==
  [k \in 1..QueueLength |->
     [id |-> "t" \o ToString(k), isrc |-> "i" \o ToString(k)]]

Stored(t) ==
  \E k \in 1..Len(sent) :
    /\ sent[k].ok
    /\ \E j \in 1..Len(sent[k].batch) : sent[k].batch[j].track_id = t.id

Missing == SelectSeq(Queue, LAMBDA t : ~Stored(t))

\* `current_limit = 50` (line 537), the limit run_job asks the server for.
current_limit == 50

\* What /genres/find-missing-apple answers: an error (-1), no track, or the
\* first tracks of the list; the code takes whatever number of tracks comes
\* back, so an answer longer than the limit is among them.
FetchSizes ==
  {-1, 0} \cup {Min(n, Len(Missing)) : n \in {2, current_limit, QueueLength}}

\* What the services answer for a track, at every request made for it:
\* whether each resolver finds the Apple link (and the page its genres), finds
\* nothing or answers 429; whether the pages of the two primaries carry dates
\* the sort cannot compare; and how long the fallback's request takes.
Position(t) == CHOOSE k \in 1..QueueLength : Queue[k] = t
Answers(odesli, tapelink, squigly, clash, delay) ==
  [answer |-> [p \in Providers |->
                 IF p = Odesli THEN odesli ELSE IF p = Tapelink THEN tapelink ELSE squigly],
   clash |-> clash, delay |-> delay]
\* The rounds of answers examined, each repeated along the server's list:
\* a mixed round in which the primaries are limited once per cooldown (a run
\* fills a batch of BATCH_SIZE and outlasts MAX_RUNTIME_SECONDS); no track
\* ever found, behind slow requests; and limited primaries with links found
\* by a slow fallback.
MixedRound ==
  << Answers("limited", "limited", "none", FALSE, Ticks(SlowRequest)),
     Answers("none", "none", "none", FALSE, Ticks(SlowRequest)),
     Answers("found", "none", "none", FALSE, 0),
     Answers("found", "found", "none", TRUE, 0),
     Answers("none", "none", "found", FALSE, 0),
     Answers("none", "found", "limited", FALSE, 0) >>
EmptyRound ==
  << Answers("none", "none", "none", FALSE, Ticks(SlowRequest)),
     Answers("none", "limited", "none", FALSE, Ticks(SlowRequest)) >>
LimitedRound ==
  << Answers("limited", "none", "found", FALSE, Ticks(SlowRequest)),
     Answers("none", "limited", "none", FALSE, Ticks(SlowRequest)),
     Answers("limited", "limited", "found", TRUE, Ticks(SlowRequest)) >>
ServiceRounds == {MixedRound, EmptyRound, LimitedRound}
Scenario(t) == call.services[((Position(t) - 1) % Len(call.services)) + 1]

FoundGenres == "[\"Pop\"]"

\* Lines 422-505: process_track from the attempt that starts at time t, with
\* the cooldowns cd, to its return: how it ends, when, and what it leaves in
\* the cooldowns, in retry_count and in the history variables.
RECURSIVE Attempts(_, _, _, _, _, _, _)
Attempts(sc, t, cd, la, rc, ws, n) ==
  LET submitted == {p \in Primaries : t > cd[p]}
      found == {p \in submitted : sc.answer[p] = "found"}
      limited == {p \in submitted : sc.answer[p] = "limited"}
      cd1 == [p \in Providers |-> IF p \in limited THEN CooldownFrom(t) ELSE cd[p]]
      la1 == [p \in Providers |-> IF p \in limited THEN t ELSE la[p]]
      fallback == found = {} /\ t > cd[Squigly]
      t2 == IF fallback THEN t + sc.delay ELSE t
      squigly == IF fallback THEN sc.answer[Squigly] ELSE "none"
      cd2 == IF squigly = "limited" THEN [cd1 EXCEPT ![Squigly] = CooldownFrom(t2)] ELSE cd1
      la2 == IF squigly = "limited" THEN [la1 EXCEPT ![Squigly] = t2] ELSE la1
      End(kind, count) ==
        [kind |-> kind, now |-> t2, cooldownUntil |-> cd2, limitedAt |-> la2,
         retry_count |-> count, waits |-> ws, attempt |-> n]
  IN IF found # {} \/ squigly = "found"
     THEN End(IF Cardinality(found) = 2 /\ sc.clash THEN "raise" ELSE "update", rc)
     ELSE IF limited = {} THEN End("none", rc)
     ELSE IF ~MayRetry(rc + 1) THEN End("none", rc + 1)
     ELSE Attempts(sc, t2 + Ticks(BackoffWait(rc + 1)), cd2, la2, rc + 1,
                   Append(ws, BackoffWait(rc + 1)), n + 1)

\* Lines 575-576: process_track(t['id'], t['isrc']) from call to return.
ProcessTrackCall ==
  /\ pc = "pt_attempt"
  /\ LET end == Attempts(Scenario(tracks[idx]), now, cooldownUntil, limitedAt,
                         0, <<>>, 1)
     IN /\ now' = end.now
        /\ cooldownUntil' = end.cooldownUntil
        /\ limitedAt' = end.limitedAt
        /\ waits' = end.waits
        /\ retry_count' = end.retry_count
        /\ attempt' = end.attempt
        /\ ret' = [kind |-> end.kind,
                   upd |-> IF end.kind = "update"
                           THEN Update(tracks[idx], FoundGenres, IntTime(end.now))
                           ELSE NoUpdate]
  /\ pc' = "job_record"
  /\ UNCHANGED <<call, returned, sent, jobVars,
                 results, should_retry, worker, sqlink, signals, reqs,
                 arrivals, errors>>

RunJobFetchMissing == Fetch(MaxCycles, FetchSizes, Missing)

RunJobInit ==
  /\ Loaded
  /\ call \in {[fn |-> "run_job", services |-> round] : round \in ServiceRounds}
  /\ returned = NotReturned
RunJobNext ==
  \/ RunJobStart
  \/ RunJobFetchMissing
  \/ RunJobNextTrack
  \/ ProcessTrackCall
  \/ RunJobRecord
  \/ RunJobFinalSend
RunJobSpec == RunJobInit /\ [][RunJobNext]_vars

\* =================================================================== claims
InTrack == pc \in {"pt_attempt", "pt_submit", "pt_collect", "sq_create", "sq_resolve",
                   "sq_scrape", "pt_decide"}

\* A provider is on cooldown when its cooldown-until is not strictly before now.
OnCooldown(p) == ~(cooldownUntil[p] < now)

\* ----------------------------------------------------------------------- C1
\* C1: for every track run_job passed to process_track, exactly one update
\* record of that track has been appended to the pending batch when the
\* iteration ends, whatever process_track did (found, not found, rate-limited
\* on all attempts, or raised), and it carries the found genres or "[]".
C1_OneUpdatePerTrack ==
  pc = "for_head" =>
    /\ appendLog = [k \in 1..(idx - 1) |-> tracks[k].id]
    /\ Len(updates) + total_sent = idx - 1
    /\ \A k \in 1..Len(updates) :
         /\ updates[k].track_id = tracks[k].id
         /\ updates[k].apple_music_genres \in {"[]", "[\"Pop\"]", "[\"Rock\"]", "[\"M\\u00fasica Mexicana\"]"}

\* ----------------------------------------------------------------------- C2
\* C2: whenever an attempt ends with zero results, a rate-limit signal of any
\* provider (Odesli, Tapelink or Squigly) was observed in it and fewer than 3
\* attempts were made, the orchestrator waits the backoff and starts another
\* attempt.
C2_RetryOnAnySignal ==
  [][(pc = "pt_decide" /\ results = <<>> /\ signals # {} /\ attempt < 3)
       => (pc' = "pt_attempt" /\ now' = now + Ticks(30 * attempt))]_vars

\* ----------------------------------------------------------------------- C3
\* The bounds of C3 in one state of a track.
C3_Bounds ==
  (InTrack \/ pc = "job_record") =>
    /\ attempt <= 3
    /\ Len(waits) = (IF pc = "pt_attempt" THEN attempt ELSE attempt - 1)
    /\ Len(waits) <= 2
    /\ \A k \in 1..Len(waits) : waits[k] = <<30, 60>>[k]
    /\ \A k \in 1..Len(waits) : waits[k] <= 120
    /\ retry_count <= 3

\* C3: process_track makes at most 3 attempts and always terminates (once
\* called it reaches its return); the wait before the second attempt is 30 s,
\* before the third 60 s, no wait exceeds 120 s and no wait follows the third
\* attempt.
C3_AttemptsAndBackoff ==
  /\ []C3_Bounds
  /\ InTrack ~> (pc = "job_record")

\* Three attempts, the waits 30 s and 60 s between them, and the return.
C3_Witness ==
  pc = "job_record" /\ attempt = 3 /\ waits = <<30, 60>> /\ ret.kind = "none"

\* ----------------------------------------------------------------------- C4
\* C4: a provider that is on cooldown (its cooldown-until is not strictly
\* before the current time) is sent no resolver request.
C4_NoRequestOnCooldown ==
  [][\A p \in Providers : reqs'[p] > reqs[p] => ~OnCooldown(p)]_vars

\* The third attempt starts at the very instant Odesli's cooldown-until is
\* reached: Odesli is not submitted and is sent nothing.
C4_Witness ==
  /\ pc = "pt_collect" /\ attempt = 3
  /\ cooldownUntil[Odesli] = now
  /\ worker[Odesli].pc = "idle" /\ reqs[Odesli] = 0

\* ----------------------------------------------------------------------- C5
\* C5: if both primaries are on cooldown when an attempt starts, the
\* orchestrator pauses 5 minutes before any further dispatch, and dispatches
\* to neither primary.
C5_BreakerPauses ==
  [][(pc = "pt_attempt" /\ \A p \in Primaries : OnCooldown(p))
       => (/\ now' >= now + Ticks(5 * 60)
           /\ \A p \in Primaries : worker'[p].pc = "idle")]_vars

\* ----------------------------------------------------------------------- C6
\* C6: initially every provider is available; handling a rate-limit signal of
\* a provider at time t sets its cooldown-until to t + 120 s, which then stays
\* until its next signal; the provider is not dispatched at any time up to
\* t + 120 s and is dispatched (a primary at the start of an attempt, the
\* fallback when the primaries gave no result) at any later time.
Limited(p) == limitedAt[p] > 0
AvailableSince(p) == ~Limited(p) \/ now > limitedAt[p] + 240

C6_Cooldown ==
  /\ \A p \in Providers : cooldownUntil[p] < now
  /\ [][/\ \A p \in Providers :
             IF p \in signals' \ signals
             THEN cooldownUntil'[p] = now' + 240 /\ limitedAt'[p] = now'
             ELSE cooldownUntil'[p] = cooldownUntil[p] /\ limitedAt'[p] = limitedAt[p]
        /\ (pc = "pt_attempt" /\ pc' = "pt_submit") =>
             ((worker'[Odesli].pc = "start") <=> AvailableSince(Odesli))
        /\ (pc = "pt_submit" /\ pc' = "pt_collect") =>
             ((worker'[Tapelink].pc = "start") <=> AvailableSince(Tapelink))
        /\ (pc = "pt_collect" /\ pc' # "pt_collect" /\ results = <<>>) =>
             ((pc' = "sq_create") <=> AvailableSince(Squigly))]_vars

\* Odesli dispatched again after its cooldown ran out, Tapelink still held back.
C6_Witness ==
  /\ pc = "pt_collect"
  /\ Limited(Odesli) /\ now > limitedAt[Odesli] + 240 /\ worker[Odesli].pc = "start"
  /\ Limited(Tapelink) /\ now <= limitedAt[Tapelink] + 240 /\ worker[Tapelink].pc = "idle"

\* ----------------------------------------------------------------------- C7
\* C7 as stated: the fallback is called if and only if the primary phase gave
\* no result, no rate-limit signal was observed in the attempt and Squigly is
\* not on cooldown.
C7_FallbackIffNoSignal ==
  [][(pc = "pt_collect" /\ pc' # "pt_collect") =>
       ((pc' = "sq_create") <=>
          (results = <<>> /\ signals = {} /\ ~OnCooldown(Squigly)))]_vars

\* C7 as amended: the fallback is called, and sends its first request, if and
\* only if the primary phase gave no result and Squigly is not on cooldown,
\* whether or not a rate-limit signal was observed in the attempt.
C7_FallbackIffNoResult ==
  [][/\ (pc = "pt_collect" /\ pc' # "pt_collect") =>
          ((pc' = "sq_create") <=> (results = <<>> /\ ~OnCooldown(Squigly)))
     /\ (pc = "sq_create") => (reqs[Squigly] = 0 /\ reqs'[Squigly] = 1)
     /\ (reqs'[Squigly] > reqs[Squigly]) => pc \in {"sq_create", "sq_resolve"}]_vars

\* The fallback answering although Odesli signalled a rate limit in the attempt.
C7_Witness ==
  pc = "sq_resolve" /\ Odesli \in signals /\ reqs[Squigly] = 1

\* ----------------------------------------------------------------------- C8
\* C8: an attempt that ends with zero results and no rate-limit signal ends
\* process_track as not found: no backoff wait, no further attempt, nothing
\* returned, and the caller records empty genres for the track.
C8_NotFoundEndsTrack ==
  [][/\ (pc = "pt_decide" /\ results = <<>> /\ signals = {}) =>
          (/\ pc' = "job_record" /\ ret'.kind = "none"
           /\ now' = now /\ waits' = waits /\ attempt' = attempt)
     /\ (pc = "job_record" /\ ret.kind = "none") =>
          (/\ pc' = "for_head"
           /\ updates' = Append(updates, Update(tracks[idx], "[]", now \div 2))
           /\ attempt' = attempt /\ waits' = waits)]_vars

\* Not found in a second attempt that saw no signal, recorded with "[]".
C8_Witness ==
  /\ pc = "for_head" /\ idx = 2 /\ attempt = 2 /\ signals = {}
  /\ Len(updates) = 1 /\ updates[1].apple_music_genres = "[]"

\* ----------------------------------------------------------------------- C9
\* C9: when an attempt obtained one or more results, the genres of the
\* returned update are those of a result with the earliest date among them; a
\* result without a date is selected only if no result has a date.
Digit(c) == Ord(c) - 48
\* The calendar day of a YYYY-MM-DD string as a number.
DayNumber(s) ==
  (Digit(s[1]) * 1000 + Digit(s[2]) * 100 + Digit(s[3]) * 10 + Digit(s[4])) * 10000
  + (Digit(s[6]) * 10 + Digit(s[7])) * 100
  + (Digit(s[9]) * 10 + Digit(s[10]))
NotLater(a, b) ==
  \/ a = b
  \/ a.kind = "str" /\ b.kind = "null"
  \/ a.kind = "str" /\ b.kind = "str" /\ DayNumber(a.s) <= DayNumber(b.s)

C9_EarliestWins ==
  (pc = "job_record" /\ ret.kind = "update") =>
    \E k \in 1..Len(arrivals) :
      /\ ret.upd.apple_music_genres = JsonDumps(arrivals[k].genres)
      /\ \A j \in 1..Len(arrivals) : NotLater(arrivals[k].date, arrivals[j].date)
      /\ arrivals[k].date = NoDate =>
           \A j \in 1..Len(arrivals) : arrivals[j].date = NoDate

\* The result collected second wins over a dateless one collected first.
C9_Witness ==
  /\ pc = "job_record" /\ ret.kind = "update"
  /\ Len(arrivals) = 2
  /\ arrivals[1].date = NoDate /\ arrivals[1].genres = <<Pop>>
  /\ arrivals[2].date = Date2021 /\ arrivals[2].genres = <<Rock>>
  /\ ret.upd.apple_music_genres = "[\"Rock\"]"

\* ---------------------------------------------------------------------- C10
\* C10: for any pair of results of the two primaries, equal dates or no dates
\* and different genres included, the genres of the returned update are the
\* same whichever resolver finished first: the update equals the one the
\* opposite collection order gives.
C10_OrderIndependent ==
  (pc = "job_record" /\ ret.kind = "update" /\ Len(arrivals) = 2) =>
    ret.upd.apple_music_genres =
      JsonDumps(BestMatch(<<arrivals[2], arrivals[1]>>).genres)

\* ---------------------------------------------------------------------- C15
Range(seq) == {seq[k] : k \in 1..Len(seq)}
ScrapeReturned == call.fn = "scrape_apple_metadata" /\ returned.done
\* The call reached the scan of the page's blocks.
PageScanned == call.apple_url # NoLink /\ call.response.status = 200

\* A block the scan passes over: its text is no JSON, reading its date fails,
\* or no genre is left after cleaning.
Unusable(match) ==
  \/ match.kind = "bad"
  \/ DateLookup(match).raised
  \/ NormalizeDate(DateLookup(match).date).raised
  \/ CleanGenreSet(ProcessGenres(find_key_recursive(match, "genre"))) = {}
\* The position of the first usable block, 0 when there is none.
FirstUsable(matches) ==
  IF \A k \in 1..Len(matches) : Unusable(matches[k]) THEN 0
  ELSE CHOOSE k \in 1..Len(matches) :
         ~Unusable(matches[k]) /\ \A j \in 1..(k - 1) : Unusable(matches[j])

\* C15: scrape_apple_metadata returns the normalized date and the cleaned
\* genres of the first block, in document order, that parses and has a
\* non-empty cleaned genre set, whatever blocks follow it; it returns nothing
\* when no block qualifies or the page status is not 200.  A first block
\* without genres and a second one with datePublished "2018" and genre
\* "Pop/Dance" give the date "2018-12-31" and the genres Pop and Dance.
C15_FirstUsableBlock ==
  ScrapeReturned =>
    LET matches == call.response.matches
        first == FirstUsable(matches)
        value == returned.value
    IN /\ IF ~PageScanned \/ first = 0 THEN value = NoMeta
          ELSE /\ value.date = NormalizeDate(DateLookup(matches[first]).date).date
               /\ Range(value.genres) =
                    CleanGenreSet(ProcessGenres(find_key_recursive(matches[first], "genre")))
               /\ Len(value.genres) = Cardinality(Range(value.genres))
       /\ (/\ PageScanned
           /\ matches = << JDict(<< <<"datePublished", Day2020>> >>),
                           JDict(<< <<"datePublished", Year2018>>,
                                    <<"genre", JStr(<<"P","o","p","/","D","a","n","c","e">>)>> >>) >>)
          => /\ value.date = StrDate(<<"2","0","1","8","-","1","2","-","3","1">>)
             /\ Range(value.genres) = {Pop, Dance}

\* The second block returned after a first block whose only genre is "music".
C15_Witness ==
  /\ ScrapeReturned
  /\ Len(call.response.matches) = 2
  /\ call.response.matches[1] = Block(Date2019, <<"m","u","s","i","c">>)
  /\ returned.value.date = StrDate(<<"2","0","1","8","-","1","2","-","3","1">>)
  /\ returned.value.genres = <<Pop, Dance>>

\* ---------------------------------------------------------------------- C16
\* The text is "music" in some letter case.
IsMusic(g) ==
  /\ Len(g) = 5
  /\ g[1] \in {"m", "M"} /\ g[2] \in {"u", "U"} /\ g[3] \in {"s", "S"}
  /\ g[4] \in {"i", "I"} /\ g[5] \in {"c", "C"}

\* C16: every metadata record scrape_apple_metadata returns has a genre list
\* that is non-empty, has no entry twice and has no entry equal to "music" in
\* any letter case.
C16_GenresClean ==
  (ScrapeReturned /\ returned.value # NoMeta) =>
    LET genres == returned.value.genres
    IN /\ genres # <<>>
       /\ \A i, j \in 1..Len(genres) : genres[i] = genres[j] => i = j
       /\ \A i \in 1..Len(genres) : ~IsMusic(genres[i])

\* Pop twice and MUSIC in the page, Pop once and no MUSIC in the record.
C16_Witness ==
  /\ ScrapeReturned
  /\ Len(call.response.matches) = 1
  /\ call.response.matches[1].kind = "dict"
  /\ HasKey(call.response.matches[1], "genre")
  /\ GetKey(call.response.matches[1], "genre") =
       JList(<<JStr(Pop), JStr(<<"M","U","S","I","C">>), JStr(Rock), JStr(Pop)>>)
  /\ returned.value.genres = <<Pop, Rock>>

\* ---------------------------------------------------------------------- C17
\* Two characters are the same letter, upper or lower case.
SameLetter(c, d) ==
  \/ c = d
  \/ \E k \in 1..56 :
       {c, d} = {SubSeq("ABCDEFGHIJKLMNOPQRSTUVWXYZÀÁÂÃÄÅÆÇÈÉÊËÌÍÎÏÐÑÒÓÔÕÖØÙÚÛÜÝÞ", k, k),
                 SubSeq("abcdefghijklmnopqrstuvwxyzàáâãäåæçèéêëìíîïðñòóôõöøùúûüýþ", k, k)}
SameText(a, b) == Len(a) = Len(b) /\ \A k \in 1..Len(a) : SameLetter(a[k], b[k])
\* The pieces of str between its slashes: from i to j, with a slash or an end
\* of str on either side and no slash inside.
Segments(str) ==
  {SubSeq(str, i, j) : <<i, j>> \in
     {ij \in (1..(Len(str) + 1)) \X (0..Len(str)) :
        /\ ij[2] >= ij[1] - 1
        /\ (ij[1] = 1 \/ str[ij[1] - 1] = "/")
        /\ (ij[2] = Len(str) \/ str[ij[2] + 1] = "/")
        /\ \A k \in ij[1]..ij[2] : str[k] # "/"}}
\* White space: the blank, the tab, the line and page breaks, the ASCII
\* separators, the next-line control and the no-break space.
Blank(c) ==
  c \in {" ", "\t", "\n", "\r", "\f"} \cup {"", "", "", "", ""}
           \cup {"", " "}
\* The piece without the white space around it.
Trimmed(seg) ==
  LET inked == {k \in 1..Len(seg) : ~Blank(seg[k])}
  IN IF inked = {} THEN <<>>
     ELSE SubSeq(seg, CHOOSE a \in inked : \A k \in inked : a <= k,
                      CHOOSE b \in inked : \A k \in inked : b >= k)
\* The genres C17 gives the raw string.
GenresOf(raw) ==
  IF \E whole \in {<<"s","i","n","g","e","r","/","s","o","n","g","w","r","i","t","e","r">>,
                   <<"a","d","u","l","t","/","c","o","n","t","e","m","p","o","r","a","r","y">>} :
       SameText(raw, whole)
  THEN {raw}
  ELSE {Trimmed(seg) : seg \in Segments(raw)} \ {<<>>}

\* C17: a raw genre string whose lower-cased form is an entry of the
\* keep-whole list is kept verbatim as one genre; any other is split on "/"
\* and each non-empty trimmed segment is a genre of its own.  The genres of a
\* returned record are these genres of the block's raw genre strings, those
\* equal to "music" left out.
C17_SplitOrKeepWhole ==
  (ScrapeReturned /\ PageScanned /\ Len(call.response.matches) = 1) =>
    LET match == call.response.matches[1]
        raw == find_key_recursive(match, "genre")
        expected == UNION {GenresOf(raw[k].s) : k \in {j \in 1..Len(raw) : raw[j].kind = "str"}}
    IN Unusable(match) \/
         Range(returned.value.genres) = {g \in expected : ~IsMusic(g)}

\* "Singer/Songwriter" kept whole.
C17_Witness ==
  /\ ScrapeReturned
  /\ returned.value.genres =
       << <<"S","i","n","g","e","r","/","S","o","n","g","w","r","i","t","e","r">> >>

\* ---------------------------------------------------------------------- C18
IsDigit(c) == c \in {"0", "1", "2", "3", "4", "5", "6", "7", "8", "9"}
IsYear(str) == Len(str) = 4 /\ \A k \in 1..4 : IsDigit(str[k])
IsYearMonth(str) ==
  Len(str) = 7 /\ IsYear(SubSeq(str, 1, 4)) /\ str[5] = "-" /\ IsDigit(str[6]) /\ IsDigit(str[7])
IsFullDate(str) ==
  Len(str) = 10 /\ IsYearMonth(SubSeq(str, 1, 7)) /\ str[8] = "-"
    /\ IsDigit(str[9]) /\ IsDigit(str[10])

\* C18: in the record of a block, a date YYYY of the block has become
\* YYYY-12-31, a date YYYY-MM has become YYYY-MM-28, a date YYYY-MM-DD is
\* unchanged, and a missing date is still missing.
C18_DateNormalized ==
  (ScrapeReturned /\ PageScanned /\ Len(call.response.matches) = 1
     /\ ~Unusable(call.response.matches[1])) =>
    LET d == DateLookup(call.response.matches[1]).date
        date == returned.value.date
    IN /\ (d.kind = "str" /\ IsYear(d.s)) =>
            date = StrDate(d.s \o <<"-","1","2","-","3","1">>)
       /\ (d.kind = "str" /\ IsYearMonth(d.s)) => date = StrDate(d.s \o <<"-","2","8">>)
       /\ (d.kind = "str" /\ IsFullDate(d.s)) => date = d
       /\ d = NoDate => date = NoDate

\* "2020-05" returned as "2020-05-28".
C18_Witness ==
  /\ ScrapeReturned
  /\ Len(call.response.matches) = 1
  /\ call.response.matches[1].kind = "dict"
  /\ HasKey(call.response.matches[1], "datePublished")
  /\ GetKey(call.response.matches[1], "datePublished") = Month2020
  /\ returned.value.date = StrDate(<<"2","0","2","0","-","0","5","-","2","8">>)

\* ---------------------------------------------------------------------- C19
\* The value of the block's date field at a position: the top level, the
\* audio object, the inAlbum object; Absent when there is no such field.
Absent == [kind |-> "absent", s |-> <<>>]
DateAt(match, position) ==
  LET fields == match.s
      top(key) == {k \in 1..Len(fields) : fields[k][1] = key}
      under(key) ==
        IF top(key) = {} THEN Absent
        ELSE LET object == fields[CHOOSE k \in top(key) : TRUE][2]
             IN IF object.kind # "dict" THEN Absent
                ELSE IF \E k \in 1..Len(object.s) : object.s[k][1] = "datePublished"
                THEN object.s[CHOOSE k \in 1..Len(object.s) :
                                object.s[k][1] = "datePublished"][2]
                ELSE Absent
  IN IF position = 1
     THEN (IF top("datePublished") = {} THEN Absent
           ELSE fields[CHOOSE k \in top("datePublished") : TRUE][2])
     ELSE IF position = 2 THEN under("audio") ELSE under("inAlbum")
\* A date one can use: a non-empty string.
Usable(d) == d.kind = "str" /\ d.s # <<>>
\* The blocks C19 is read on: one object per page whose date fields hold
\* strings or null.
DatedBlock ==
  /\ ScrapeReturned /\ PageScanned /\ Len(call.response.matches) = 1
  /\ call.response.matches[1].kind = "dict"
  /\ ~Unusable(call.response.matches[1])
  /\ \A position \in 1..3 :
       DateAt(call.response.matches[1], position).kind \in {"absent", "null", "str"}

\* C19: the date of the block is the first usable date in the order top
\* level, audio, inAlbum, also when an earlier position has none; a block
\* without a usable date yields no date.
C19_FirstUsableDate ==
  DatedBlock =>
    LET match == call.response.matches[1]
        usable == {position \in 1..3 : Usable(DateAt(match, position))}
    IN IF usable = {} THEN ~Truthy(returned.value.date)
       ELSE returned.value.date =
              NormalizeDate(DateAt(match, CHOOSE a \in usable : \A b \in usable : a <= b)).date

\* ---------------------------------------------------------------------- C20
\* The values stored under a genre key anywhere in the document, those inside
\* the value of another genre key too, a list-valued one given by its items.
RECURSIVE GenreValues(_)
GenreValues(data) ==
  IF data.kind = "dict"
  THEN UNION {(IF data.s[k][1] = "genre"
               THEN (IF data.s[k][2].kind = "list" THEN Range(data.s[k][2].s)
                     ELSE {data.s[k][2]})
               ELSE {}) \cup GenreValues(data.s[k][2]) : k \in 1..Len(data.s)}
  ELSE IF data.kind = "list" THEN UNION {GenreValues(data.s[k]) : k \in 1..Len(data.s)}
  ELSE {}

\* C20: find_key_recursive(data, "genre") returns every value stored under a
\* genre key anywhere in the document, at any depth inside mappings and
\* sequences, the genre keys inside the value of another genre key included,
\* a list-valued occurrence flattened into the result.
C20_EveryGenreValue ==
  (call.fn = "find_key_recursive" /\ call.target_key = "genre" /\ returned.done) =>
    Range(returned.value) = GenreValues(call.data)

\* ---------------------------------------------------------------------- C12
ResolverReturned ==
  call.fn \in {"resolve_odesli", "resolve_tapelink", "resolve_squigly"} /\ returned.done
IsStep(fn, http_step) == call.fn = fn /\ call.http_step = http_step
\* The request did not come back with a success status: a transport error
\* (an exception) or a status other than 200 (201 too for Squigly's create).
NoSuccess ==
  call.response.status \notin
    (IF IsStep("resolve_squigly", 1) THEN {200, 201} ELSE {200})
\* The body does not parse.
ParseError ==
  IF call.http_step = 2 /\ call.fn # "resolve_squigly"
  THEN ~call.response.next_data ELSE ~call.response.json
\* A field the step needs is not in the body.
MissingField ==
  \/ IsStep("resolve_odesli", 1)
       /\ ~(call.response.links = "apple" /\ call.response.url # NoLink)
       /\ (~call.response.id \/ ~call.response.type)
  \/ IsStep("resolve_tapelink", 1) /\ (~call.response.success \/ ~call.response.stub)
  \/ IsStep("resolve_squigly", 1) /\ ~call.response.slug
  \/ call.http_step = 2 /\ call.response.url = NoLink
\* The bodies the resolvers take for a rate limit in disguise: from Odesli
\* neither id nor links, from Tapelink no success and an error message that
\* speaks of a rate or a limit.
SoftBody ==
  /\ ~NoSuccess /\ ~ParseError
  /\ \/ IsStep("resolve_odesli", 1) /\ ~call.response.id /\ call.response.links = "none"
     \/ IsStep("resolve_tapelink", 1) /\ ~call.response.success
          /\ call.response.error = "rate"

\* C12: at each request of each resolver, a 429 makes the resolver raise the
\* rate-limit signal; any other non-success status, a missing field, a parse
\* error or an exception makes it return no result without raising.
C12_OnlyHardRaises ==
  ResolverReturned =>
    /\ call.response.status = 429 => returned.value = RaiseHard
    /\ (call.response.status # 429 /\ (NoSuccess \/ ParseError \/ MissingField)) =>
         returned.value = RetNone

\* C12 as amended: a 429 makes the resolver raise the rate-limit signal; a
\* success status whose body has neither id nor links (Odesli's API) or
\* reports no success with a message about a rate or a limit (Tapelink's
\* generate-link) makes it raise the soft rate-limit signal; any other
\* non-success status, missing field, parse error or exception makes it
\* return no result without raising, and nothing else raises.
C12_HardSoftOrNone ==
  ResolverReturned =>
    /\ call.response.status = 429 => returned.value = RaiseHard
    /\ (call.response.status # 429 /\ SoftBody) => returned.value = RaiseSoft
    /\ (call.response.status # 429 /\ ~SoftBody /\ (NoSuccess \/ ParseError \/ MissingField)) =>
         returned.value = RetNone
    /\ (call.response.status # 429 /\ ~SoftBody) => returned.value.kind \notin {"hard", "soft"}

\* Odesli's API answered 429 and the resolver raised; so did it, softly, on
\* an empty body.
C12_Witness ==
  /\ ResolverReturned
  /\ IsStep("resolve_odesli", 1)
  /\ \/ call.response.status = 429 /\ returned.value = RaiseHard /\ call.response.json
     \/ call.response.status = 200 /\ returned.value = RaiseSoft /\ call.response.type

\* ---------------------------------------------------------------------- C11
\* C11: within one attempt the extractor is run at most once per destination
\* URL: no two of the records it returned in this attempt are of the same
\* page, also when both primaries resolved the track to the same URL.
C11_OneFetchPerUrl ==
  \A i, j \in 1..Len(results) : i # j => results[i].url # results[j].url

\* ---------------------------------------------------------------------- C13
\* C13: the loop body handles a soft rate-limit signal of a primary exactly
\* as it would handle a hard one from that provider in the same state: the
\* same cooldown value for that provider, the same retry flag, and the same
\* state to go on from.
C13_SoftLikeHard ==
  [][\A p \in Primaries :
       (/\ pc = "pt_collect"
        /\ worker[p].pc = "done" /\ worker[p].out.kind = "soft"
        /\ worker'[p].pc = "collected")
         => /\ HandleFuture(p, Fut("hard", NoMeta))
            /\ cooldownUntil'[p] = now + Ticks(COOLDOWN_SECONDS)
            /\ should_retry'
            /\ UNCHANGED <<now, pc, jobVars, retry_count, sqlink, ret, attempt, waits, reqs>>
    ]_vars

\* A soft signal of Odesli has been handled.
C13_Witness ==
  /\ pc = "pt_collect"
  /\ worker[Odesli].pc = "collected"
  /\ worker[Odesli].out.kind = "soft"
  /\ should_retry
  /\ cooldownUntil[Odesli] = now + Ticks(COOLDOWN_SECONDS)

\* ---------------------------------------------------------------------- C14
AttemptPhaseTwo == pc \in {"sq_create", "sq_resolve", "sq_scrape", "pt_decide"}

\* What holds of the providers that met a transport error in this attempt.
ErrorIsNoResult ==
  /\ \A p \in Primaries \cap errors :
       /\ worker[p].pc \in {"done", "collected"} => worker[p].out.kind = "none"
       /\ p \notin signals
       /\ now > cooldownUntil[p]
       /\ should_retry => \E q \in Primaries \ {p} : q \in signals
       /\ AttemptPhaseTwo =>
            \A q \in Primaries \ {p} :
              /\ worker[q].pc \in {"idle", "collected"}
              /\ worker[q].out.kind = "meta" => InList(worker[q].out.meta, results)
       /\ (pc = "pt_decide" /\ results = <<>>) =>
            (reqs[Squigly] > 0 \/ ~DispatchAllowed(Squigly))
  /\ Squigly \in errors =>
       /\ Squigly \notin signals
       /\ now > cooldownUntil[Squigly]
       /\ pc \in {"sq_resolve", "sq_scrape"} \/ results = <<>>

\* C14: a provider that met a transport error in this attempt has no result
\* and nothing else: it has raised no signal, its cooldown is not set, the
\* retry flag is set only by the signal of another provider, the result of
\* the other primary is collected all the same, the fallback is tried when
\* there is no result, and the attempt does not end in process_track raising.
C14_ErrorIsNoResult ==
  /\ []ErrorIsNoResult
  /\ [][(pc = "pt_decide" /\ errors # {}) => ret'.kind # "raise"]_vars

\* Odesli met a transport error and Tapelink's record was collected.
C14_Witness ==
  /\ pc = "pt_decide"
  /\ Odesli \in errors
  /\ worker[Odesli].pc = "collected"
  /\ worker[Tapelink].out.kind = "meta"
  /\ results = <<worker[Tapelink].out.meta>>

\* ---------------------------------------------------------------------- C21
\* Elapsed run time is below MAX_RUNTIME_SECONDS.
WithinBudget == (now - START_TIME) < Ticks(MAX_RUNTIME_SECONDS)

\* The last call of send_updates_to_turso was made with the pending batch.
PendingHandedOver ==
  sent # <<>> /\ sent[Len(sent)].batch = updates

\* The loop over the tracks was left before its last track.
LoopBroken == idx <= Len(tracks)

\* C21: once the elapsed run time has reached the budget no call of
\* process_track is started; the for loop is then left for the final
\* submission, which hands the whole pending batch to send_updates_to_turso,
\* and the run ends only at its start, when nothing has been fetched yet
\* (TURSO_WORKER_URL is missing), or from the head of the while loop, where
\* every update still pending has been handed to a submission attempt.
C21_BudgetStopsTracks ==
  /\ [][/\ called' > called => WithinBudget
        /\ (pc = "for_head" /\ ~WithinBudget) => pc' = "final_send"
        /\ (pc = "final_send" /\ updates # <<>>) =>
             (Len(sent') = Len(sent) + 1 /\ sent'[Len(sent')].batch = updates)
        /\ pc' = "done" => pc \in {"job_start", "job_loop", "done"}
        /\ (pc = "job_start" /\ pc' = "done") => (called = 0 /\ updates = <<>>)]_vars
  /\ []((pc \in {"job_loop", "done"} /\ updates # <<>>) => PendingHandedOver)

\* The budget ran out inside a cycle with updates pending, and the run ended.
C21_Witness ==
  /\ pc = "done"
  /\ LoopBroken
  /\ updates # <<>>
  /\ PendingHandedOver


\* ---------------------------------------------------------------------- C22
IsPrefix(a, b) == Len(a) <= Len(b) /\ SubSeq(b, 1, Len(a)) = a

\* The for loop over the tracks of the current cycle is running.
InTrackLoop == pc \in {"for_head", "pt_attempt", "job_record", "final_send"}

\* The k-th submission failed and was followed by another one in its cycle.
FailedThenNext(k) ==
  /\ k < Len(sent)
  /\ ~sent[k].ok
  /\ sent[k + 1].cycle = sent[k].cycle

\* C22: a submission that fails inside the track loop neither ends the loop
\* nor raises: the loop goes on with the next track and the batch that was
\* not sent is the pending list, unchanged; as long as the cycle lasts the
\* pending list starts with that batch, later updates coming after it, and
\* the next submission of the cycle is made with them all.
C22_FailedBatchKept ==
  /\ [][(pc = "job_record" /\ Len(sent') > Len(sent) /\ ~sent'[Len(sent')].ok) =>
          (/\ pc' = "for_head"
           /\ updates' = sent'[Len(sent')].batch
           /\ fetches' = fetches)]_vars
  /\ [](\A k \in 1..Len(sent) :
          /\ (InTrackLoop /\ k = Len(sent) /\ ~sent[k].ok /\ sent[k].cycle = fetches)
               => IsPrefix(sent[k].batch, updates)
          /\ FailedThenNext(k) => IsPrefix(sent[k].batch, sent[k + 1].batch))

\* A batch failed inside the loop and the next submission carried it together
\* with an update made after the failure.
C22_Witness ==
  \E k \in 1..Len(sent) :
    /\ FailedThenNext(k)
    /\ Len(sent[k].batch) >= BATCH_SIZE
    /\ Len(sent[k + 1].batch) > Len(sent[k].batch)


\* ---------------------------------------------------------------------- C23
\* Two returns of scrape_apple_metadata agree: nothing both times, or the
\* same URL, the same date and the same set of genres.
SameResult(first, second) ==
  IF first = NoMeta \/ second = NoMeta THEN first = second
  ELSE /\ first.url = second.url
       /\ first.date = second.date
       /\ Range(first.genres) = Range(second.genres)

\* scrape_apple_metadata has returned from both calls on the link and the page.
ScrapeReturnedTwice == ScrapeReturned /\ "again" \in DOMAIN returned

\* C23: when scrape_apple_metadata has run twice on the same link and the same
\* page, its two returns agree: nothing both times, or the same URL, the same
\* date and the same set of genres.
C23_SameInputSameResult ==
  ScrapeReturnedTwice => SameResult(returned.value, returned.again)

\* Both runs returned a record, and the two list the genres in different orders.
C23_Witness ==
  /\ ScrapeReturnedTwice
  /\ returned.value # NoMeta
  /\ returned.again # NoMeta
  /\ returned.again.genres # returned.value.genres


\* ---------------------------------------------------------------------- C24
\* check_provider for primary p is running in a pool thread.
Resolving(p) == worker[p].pc \in {"start", "step2", "scrape"}

\* The step is process_track handling a rate-limit signal of provider p: of a
\* primary's finished future in the as_completed loop, or of the fallback
\* call in the main thread.
HandlesSignalOf(p) ==
  IF p \in Primaries
  THEN /\ pc = "pt_collect"
       /\ worker[p].pc = "done"
       /\ worker[p].out.kind \in {"hard", "soft"}
       /\ worker'[p].pc = "collected"
  ELSE /\ pc \in {"sq_create", "sq_resolve"}
       /\ p \in signals' \ signals

\* The step is one of a pool thread, inside check_provider.
PoolThreadStep ==
  \E p \in Primaries : Resolving(p) /\ worker'[p] # worker[p]

\* C24: a cooldown timestamp changes only in a step in which process_track
\* handles a rate-limit signal of that very provider, whose resolution is
\* then no longer running, and the step leaves the cooldowns of all other
\* providers as they were; the steps of the pool threads, where the resolvers
\* run, change no cooldown.
C24_CooldownFrame ==
  [][/\ \A p \in Providers :
          cooldownUntil'[p] # cooldownUntil[p] =>
            /\ HandlesSignalOf(p)
            /\ p \in Primaries => ~Resolving(p)
            /\ \A q \in Providers \ {p} : cooldownUntil'[q] = cooldownUntil[q]
     /\ PoolThreadStep => cooldownUntil' = cooldownUntil]_vars

\* Odesli's signal has been handled while Tapelink's resolution is still
\* running: Odesli's cooldown is set, Tapelink's is untouched.
C24_Witness ==
  /\ pc = "pt_collect"
  /\ Odesli \in signals
  /\ cooldownUntil[Odesli] = CooldownFrom(limitedAt[Odesli])
  /\ Resolving(Tapelink)
  /\ cooldownUntil[Tapelink] = 0


\* ---------------------------------------------------------------------- C25
\* The fallback resolution runs in the main thread.
FallbackRunning == pc \in {"sq_create", "sq_resolve", "sq_scrape"}

\* The provider resolutions that are running.
InFlight ==
  {p \in Primaries : Resolving(p)} \cup (IF FallbackRunning THEN {Squigly} ELSE {})

\* Every primary of the attempt was either not dispatched or has had its
\* result or signal collected by the as_completed loop.
PrimariesCollected == \A p \in Primaries : worker[p].pc \in {"idle", "collected"}

\* C25: at most 2 provider resolutions are in flight at any time; a primary
\* resolution runs only in the primary phase of an attempt of the one track
\* process_track is working on; and when the fallback is tried and when the
\* results are merged, every dispatched primary has been collected.
C25_BoundedParallelism ==
  /\ Cardinality(InFlight) <= 2
  /\ \A p \in Primaries :
       Resolving(p) => (pc \in {"pt_submit", "pt_collect"} /\ idx \in 1..Len(tracks))
  /\ (FallbackRunning \/ pc = "pt_decide") => PrimariesCollected

\* The fallback is being tried after both primaries were dispatched and
\* collected, one of them with a rate-limit signal.
C25_Witness ==
  /\ pc = "sq_create"
  /\ \A p \in Primaries : worker[p].pc = "collected"
  /\ signals # {}

\* Both primaries are being resolved at the same time.
C25_TwoInFlight == Cardinality(InFlight) = 2


\* ---------------------------------------------------------------------- C26
\* An attempt is under way in which neither primary was submitted to the
\* pool, both being on cooldown at its start.
NoPrimaryDispatched ==
  /\ pc \in {"pt_collect", "sq_create", "sq_resolve", "sq_scrape", "pt_decide"}
  /\ \A p \in Primaries : worker[p].pc = "idle"

\* C26: an attempt in which no primary is dispatched never has the retry flag
\* set, and it is the last attempt for the track: process_track goes from it
\* straight back to run_job, with the fallback's result or with nothing,
\* without a backoff wait, also when the fallback signalled a rate limit.
C26_NoPrimaryNoRetry ==
  /\ [](NoPrimaryDispatched => ~should_retry)
  /\ [][(NoPrimaryDispatched /\ pc = "pt_decide") =>
          (/\ pc' = "job_record"
           /\ ret'.kind = (IF results = <<>> THEN "none" ELSE "update")
           /\ now' = now
           /\ waits' = waits)]_vars

\* An attempt without primaries is at its end after the fallback signalled a
\* rate limit, with attempts to spare.
C26_Witness ==
  /\ NoPrimaryDispatched
  /\ pc = "pt_decide"
  /\ Squigly \in signals
  /\ MayRetry(retry_count + 1)


\* ---------------------------------------------------------------------- C27
\* The cooldown of every provider that signalled in this attempt is the one
\* its handler set.
SignalledCooldownsSet ==
  \A p \in signals : cooldownUntil[p] = CooldownFrom(limitedAt[p])

\* C27: an attempt that ends with at least one metadata result makes
\* process_track return the update at once, with no backoff wait and no
\* further attempt, also when a provider signalled a rate limit in the same
\* attempt; the cooldown of that provider is set and is left as it is by the
\* return.
C27_ResultReturnsAtOnce ==
  /\ [][(pc = "pt_decide" /\ results # <<>>) =>
          (/\ pc' = "job_record"
           /\ ret'.kind = "update"
           /\ now' = now
           /\ waits' = waits
           /\ retry_count' = retry_count
           /\ cooldownUntil' = cooldownUntil)]_vars
  /\ []((pc = "pt_decide" /\ results # <<>>) => SignalledCooldownsSet)

\* The same for the attempts whose results the sort can order.
C27_SortableResultReturnsAtOnce ==
  /\ [][(pc = "pt_decide" /\ results # <<>> /\ ~SortRaises(results)) =>
          (/\ pc' = "job_record"
           /\ ret'.kind = "update"
           /\ now' = now
           /\ waits' = waits
           /\ retry_count' = retry_count
           /\ cooldownUntil' = cooldownUntil)]_vars
  /\ []((pc = "pt_decide" /\ results # <<>>) => SignalledCooldownsSet)

\* An attempt ends with a result of one primary and a rate-limit signal of
\* the other.
C27_ResultAndSignal ==
  /\ pc = "pt_decide"
  /\ results # <<>>
  /\ signals # {}
  /\ should_retry
  /\ MayRetry(retry_count + 1)


\* ---------------------------------------------------------------------- C28
\* The track ids of the pending updates, in order.
PendingIds == [k \in 1..Len(updates) |-> updates[k].track_id]

IsSuffix(a, b) ==
  Len(a) <= Len(b) /\ SubSeq(b, Len(b) - Len(a) + 1, Len(b)) = a

\* Submission j was made with an update that submission k was made with.
Resubmits(k, j) == Range(sent[k].batch) \cap Range(sent[j].batch) # {}

\* C28: the pending batch is empty when the loop over the tracks of a cycle
\* begins and holds, while the loop runs, only updates appended in this
\* cycle; no submission is made with an update of a submission of an earlier
\* cycle, failed or not, nor with an update of an earlier submission that
\* succeeded.
C28_BatchEndsWithCycle ==
  /\ (pc = "for_head" /\ idx = 1) => updates = <<>>
  /\ InTrackLoop => IsSuffix(PendingIds, appendLog)
  /\ \A k, j \in 1..Len(sent) :
       (k < j /\ (sent[k].ok \/ sent[k].cycle # sent[j].cycle)) => ~Resubmits(k, j)

\* The final submission of a cycle failed, and a later cycle made a
\* submission for the same track, with a new update.
C28_Witness ==
  \E k, j \in 1..Len(sent) :
    /\ k < j
    /\ ~sent[k].ok
    /\ sent[k].cycle < sent[j].cycle
    /\ sent[k].batch[1].track_id = sent[j].batch[1].track_id
    /\ ~Resubmits(k, j)

====
